---- MODULE Spec2Model ----
(***************************************************************************)
(* A model of the synv2 supervision runtime and control plane:             *)
(*   - the in-sandbox gateway (src/container/gateway.js),                  *)
(*   - the supervisor state machine (src/container/worker-agent.js,        *)
(*     lines 457-1614, the task-aware supervisor),                         *)
(*   - the control plane's resize flow (routes, container manager, worker  *)
(*     agent docker helpers).                                              *)
(* Each part has its own variables and its own next-state relation; the    *)
(* specifications at the end of each part share one initial state.         *)
(***************************************************************************)
EXTENDS Integers, Sequences, FiniteSets, TLC

(***************************************************************************)
(* Bounds of the model (not program constants).                            *)
(***************************************************************************)
\* events the upstream engine emits in a run of SpecHistory
MaxEvents == 52
\* events the upstream engine emits in a run of SpecGateway
MaxLive == 3
\* downstream client connections of the gateway
MaxClients == 2
\* consecutive upstream closes counted by reconnectAttempts
MaxAttempts == 2
\* chat.send requests awaiting their response
MaxPending == 2
\* events the upstream engine emits in a run of SpecRing
MaxRing == 76
\* events the upstream engine emits in a run of SpecClients
MaxClientEvents == 2
\* uncaught exceptions of the supervisor process in a run of SpecLink
MaxFaults == 1
\* resize requests in a run of SpecResize
MaxResizes == 2
\* prompts one supervisor process sends
MaxTurns == 2
\* turns of a task with a verify command and no turn limit
MaxVerifyTurns == 10
\* questions the agent adds to a task
MaxQuestions == 1
\* human clients of the gateway
MaxHumans == 1
\* tasks the operator creates
MaxTasks == 1
\* consecutive empty or idle turns counted
MaxStreak == 2
\* chat.send runs in progress at once
MaxRuns == 2
MaxIdleRunTurns == 22
MaxTools == 4
MaxFrames == 2
MaxBackoffAttempts == 6

(***************************************************************************)
(* Program constants.                                                      *)
(***************************************************************************)
EVENT_BUFFER_SIZE == 50
MIN_DELAY_MS == 15000
IDLE_DELAY_MS == 300000
MAX_IDLE_DELAY_MS == 600000
BACKOFF_DELAY_MS == 120000
MAX_BACKOFF_MS == 600000
EMPTY_THRESHOLD == 3
RECOVERY_FULL_THRESHOLD == 5
RECOVERY_DIRECTIVE_THRESHOLD == 10
RECOVERY_RESET_THRESHOLD == 20
VERIFY_EVERY_N_TURNS == 10
IDLE_CHARS_THRESHOLD == 200
PRODUCTIVE_TOOL_THRESHOLD == 1
RECONNECT_BASE_MS == 2000
RECONNECT_MAX_MS == 30000

Min(a, b) == IF a <= b THEN a ELSE b

\* Math.min(delay * Math.pow(2, n), cap) for positive delay and cap, computed without
\* leaving the range of the integers
RECURSIVE DoubledUpTo(_, _, _)
DoubledUpTo(delay, n, cap) ==
    IF n = 0 \/ delay >= cap THEN Min(delay, cap) ELSE DoubledUpTo(2 * delay, n - 1, cap)

VARIABLES
    \* ---- gateway.js ----
    openclawWs,         \* "null" | "connecting" | "open": the upstream socket
    ocConnected,        \* handshake (hello-ok) completed
    agentBusy,          \* gateway's agentBusy
    reconnectAttempts,
    reconnectTimer,     \* TRUE iff a reconnect timeout is pending
    taskStatus,         \* "null" | "known"
    eventBuffer,        \* the history ring: sequence of event numbers
    clients,            \* client id -> [open, role, hist, live, connAt]
    evCount,            \* events buffered and broadcast so far (event k is the k-th)
    connectReq,         \* a connect request awaits its response (protocol state)
    pendingSends,       \* chat.send requests awaiting their response
    ocSockets,          \* upstream sockets created and not closed yet (connecting or open)
    timersPending,      \* reconnect timeouts set and not fired yet
    reconnectDelay,     \* the delay of the pending reconnect timeout in ms, 0 when none
    clientFrame,        \* what the last client handler sent besides events: [type, to, ...]
    connFrames          \* what the last connection handler sent: [types, status]

gvars == <<openclawWs, ocConnected, agentBusy, reconnectAttempts, reconnectTimer,
           taskStatus, eventBuffer, clients, evCount, connectReq, pendingSends,
           ocSockets, timersPending, reconnectDelay, clientFrame, connFrames>>

\* ---- control plane: resize of a project that has a dedicated worker ----
VARIABLES
    cpProjectStatus,    \* projects.status of the project row
    cpWorkerStatus,     \* workers.status of the project's worker row
    cpWorkerType,       \* workers.instance_type
    wContainer,         \* the sandbox exists on the worker
    wVolume,            \* the worker's workspace volume: [exists, files]
    lContainer,         \* a sandbox of that name exists on the control-plane host
    lVolume,            \* the control-plane host's volume of that name: [exists, files]
    resizePc,           \* position of the resize request handler
    resizeType,         \* instanceType of the request being handled
    resizeResult,       \* "none" | "ok" | "error": response of the last resize request
    provPc,             \* position of the background waitForWorkerReady
    resizes,            \* resize requests received so far
    filesBefore,        \* files of /workspace when the resize request arrived
    restartFiles        \* files of /workspace when the last restart ran: [worker, local]

cvars == <<cpProjectStatus, cpWorkerStatus, cpWorkerType, wContainer, wVolume,
           lContainer, lVolume, resizePc, resizeType, resizeResult, provPc, filesBefore, resizes,
           restartFiles>>

\* ---- supervisor (worker-agent.js, task-aware supervisor) ----
VARIABLES
    state,              \* STATE of the supervisor
    turnCount,
    consecutiveEmpty,
    consecutiveIdle,
    humanCount,
    supAgentBusy,       \* the supervisor's own agentBusy
    connected,
    turnTimer,          \* TRUE iff the turn timeout is armed
    delayTimer,         \* TRUE iff the delay timeout is armed
    resumeTimer,        \* TRUE iff the human-resume timeout is armed
    taskPollTimer,      \* TRUE iff the 15 s task poll interval runs
    needsInputTimer,    \* TRUE iff the 2 min needs-input poll interval runs
    turnTextChars,      \* characters of text_delta since the last prompt (saturates at 200)
    turnToolCount,      \* tool_start frames since the last prompt (saturates at 1)
    firstPromptSent,
    productiveTurnsSinceVerify,
    currentTask,        \* the supervisor's in-memory task (NoTask for null)
    lastSeenAnswers,    \* question id -> TRUE iff answered_at was set at the last snapshot
    \* ---- what the supervisor talks to ----
    taskFile,           \* /workspace/.task.json (NoTask when absent)
    gwHumans,           \* human clients attached to the gateway
    gwBusy,             \* the gateway's agentBusy
    gwOc,               \* the gateway's ocConnected
    gwRuns,             \* chat.send runs the engine has not ended yet
    statusDue,          \* the status frame of a new connection is on its way
    errDue,             \* the gateway's "not connected yet" error frame is on its way
    \* ---- history of the run ----
    lastPrompt,         \* the last user_message sent: [type, answers, state]
    turnOpen,           \* a prompt was sent and no done, error or timeout has followed
    opPaused,           \* supervisor_control pause delivered, no resume since
    humanPreempted,     \* humans attached during DELAY and have stayed since
    verifyFailed,       \* an agent-declared completion failed verification, no prompt since
    turnDelay           \* the delay of the armed delay timer in ms, 0 when none is armed

svars == <<state, turnCount, consecutiveEmpty, consecutiveIdle, humanCount, supAgentBusy,
           connected, turnTimer, delayTimer, resumeTimer, taskPollTimer, needsInputTimer,
           turnTextChars, turnToolCount, firstPromptSent, productiveTurnsSinceVerify,
           currentTask, lastSeenAnswers, taskFile, gwHumans, gwBusy, gwOc, gwRuns,
           statusDue, errDue, lastPrompt, turnOpen, opPaused, humanPreempted,
           verifyFailed, turnDelay>>

\* ---- the supervisor process and its sockets to the gateway ----
VARIABLES
    supWs,              \* the supervisor's ws: the client id of the last socket created, 0 for null
    supSocks,           \* client ids of the supervisor's sockets that have not closed
    supConnects,        \* connectToGateway calls due: 5 s reconnects and a main() past waitForBridge
    supRestarts,        \* 30 s main() restarts due
    supFaults           \* uncaught exceptions so far

lvars == <<supWs, supSocks, supConnects, supRestarts, supFaults>>

\* ---- a task route of the control plane between its read and its write ----
VARIABLES
    cpTaskOp,           \* the route that has read the task file and not written yet, or none
    cpTaskDoc           \* the document that route will write

tvars == <<cpTaskOp, cpTaskDoc>>

\* ---- control plane: the projects and secrets tables and the routes on them ----
VARIABLES
    dbProjects,         \* rows of table projects, newest first: [name, status]
    dbSecrets,          \* rows of table secrets: <<project_name, key>>
    creating,           \* name of the create request awaiting its container or worker, or none
    destroying,         \* name of the destroy request awaiting its teardown, or none
    apiResponse,        \* the last response sent: [op, name, code]
    created,            \* names whose create returned 201 and whose row was not deleted since
    cascaded            \* rows of table secrets that went with the row of their project

dvars == <<dbProjects, dbSecrets, creating, destroying, apiResponse, created, cascaded>>

\* ---- the chat relays: one session of each relay in the repository ----
VARIABLES
    relayUp,            \* relay -> state of its upstream socket: open, errored, closed
    relayClient         \* relay -> the client socket: [open, by, upstream, code, bytes]

rvars == <<relayUp, relayClient>>

\* ---- the classification of a turn ----
VARIABLES
    turnEnded           \* the last turn classified: [result, chars, tools, classification]

kvars == <<turnEnded>>

\* ---- the chat relays: the frames of a client through one session of each relay ----
VARIABLES
    fwdUp,              \* relay -> its upstream socket: connecting, open, closed
    fwdSent,            \* relay -> number of frames the client has sent to the relay
    fwdGot              \* relay -> the frames the gateway has received, by their number

fvars == <<fwdUp, fwdSent, fwdGot>>

\* ---- the stored ciphertexts of a project and the environment of its sandbox ----
VARIABLES
    encIntact,          \* stored ciphertext -> TRUE iff its tag verifies under the key
    envOutcome,         \* the last env composition: [result, env]
    envSandbox          \* the project's sandbox: [present, env]

evars == <<encIntact, envOutcome, envSandbox>>

vars == <<gvars, cvars, svars, lvars, tvars, dvars, rvars, kvars, fvars, evars>>

\* a gateway step leaves the other parts alone
GOnly == UNCHANGED <<cvars, svars, lvars, tvars, dvars, rvars, kvars, fvars, evars>>
\* a control-plane step leaves the other parts alone
COnly == UNCHANGED <<gvars, svars, lvars, tvars, dvars, rvars, kvars, fvars, evars>>
\* a supervisor step leaves the other parts alone
SOnly == UNCHANGED <<gvars, cvars, lvars, tvars, dvars, rvars, kvars, fvars, evars>>
\* a step of the supervisor process and its sockets leaves the control plane and the
\* supervisor's state machine alone
LOnly == UNCHANGED <<cvars, svars, tvars, dvars, rvars, kvars, fvars, evars>>

ClientIds == 1..MaxClients
Roles == {"null", "human", "supervisor"}

NoClient == [open |-> FALSE, role |-> "null", hist |-> <<>>, live |-> <<>>, connAt |-> 0]

(***************************************************************************)
(* Gateway helpers.                                                        *)
(***************************************************************************)
getHumanCount(cl) == Cardinality({c \in ClientIds : cl[c].open /\ cl[c].role = "human"})

isSupervisorConnected(cl) == \E c \in ClientIds : cl[c].open /\ cl[c].role = "supervisor"

\* broadcast(msg) for an event frame: every open client receives it
broadcast(cl, e) ==
    [c \in ClientIds |-> IF cl[c].open THEN [cl[c] EXCEPT !.live = Append(@, e)] ELSE cl[c]]

\* mutant: the ring evicts once it is full, not once it overflows
PushEvictEarly(buf, e) ==
    LET b == Append(buf, e) IN IF Len(b) >= EVENT_BUFFER_SIZE THEN Tail(b) ELSE b

\* mutant: the ring drops the newest event when it overflows
PushDropNewest(buf, e) ==
    LET b == Append(buf, e) IN
    IF Len(b) > EVENT_BUFFER_SIZE THEN SubSeq(b, 1, EVENT_BUFFER_SIZE) ELSE b

\* eventBuffer.push(event); if (length > EVENT_BUFFER_SIZE) eventBuffer.shift()
Push(buf, e) ==
    LET b == Append(buf, e) IN IF Len(b) > EVENT_BUFFER_SIZE THEN Tail(b) ELSE b

\* bufferAndBroadcast applied to k consecutive events of one upstream frame
RECURSIVE BufferAndBroadcastN(_, _, _, _)
BufferAndBroadcastN(buf, cl, n, k) ==
    IF k = 0 THEN <<buf, cl, n>>
    ELSE BufferAndBroadcastN(Push(buf, n + 1), broadcast(cl, n + 1), n + 1, k - 1)

bufferAndBroadcast(k) ==
    LET r == BufferAndBroadcastN(eventBuffer, clients, evCount, k) IN
    /\ eventBuffer' = r[1]
    /\ clients' = r[2]
    /\ evCount' = r[3]

(***************************************************************************)
(* Upstream (engine) connection.                                           *)
(***************************************************************************)
\* connectToOpenClaw(): returns at once when the socket is open, else a new socket is
\* created and openclawWs refers to it
connectToOpenClaw ==
    IF openclawWs = "open"
    THEN UNCHANGED <<openclawWs, connectReq, ocSockets>>
    ELSE openclawWs' = "connecting" /\ connectReq' = FALSE /\ ocSockets' = ocSockets + 1

\* openclawWs.on('open')
OcOpen ==
    /\ GOnly
    /\ UNCHANGED <<ocSockets, timersPending, reconnectDelay, clientFrame, connFrames>>
    /\ openclawWs = "connecting"
    /\ openclawWs' = "open"
    /\ UNCHANGED <<ocConnected, agentBusy, reconnectAttempts, reconnectTimer, taskStatus,
                   eventBuffer, clients, evCount, connectReq, pendingSends>>

\* event connect.challenge: the gateway answers with a connect request
OcChallenge ==
    /\ GOnly
    /\ UNCHANGED <<ocSockets, timersPending, reconnectDelay, clientFrame, connFrames>>
    /\ openclawWs = "open" /\ ~ocConnected /\ ~connectReq
    /\ connectReq' = TRUE
    /\ UNCHANGED <<openclawWs, ocConnected, agentBusy, reconnectAttempts, reconnectTimer,
                   taskStatus, eventBuffer, clients, evCount, pendingSends>>

\* res ok, payload.type = hello-ok (the status broadcast carries no event)
OcHelloOk ==
    /\ GOnly
    /\ UNCHANGED <<ocSockets, timersPending, reconnectDelay, clientFrame, connFrames>>
    /\ openclawWs = "open" /\ connectReq
    /\ connectReq' = FALSE
    /\ ocConnected' = TRUE
    /\ reconnectAttempts' = 0
    /\ UNCHANGED <<openclawWs, agentBusy, reconnectTimer, taskStatus, eventBuffer, clients,
                   evCount, pendingSends>>

\* chat event, state delta: an event only when the text is not empty
OcChatDelta(lim, hasText) ==
    /\ GOnly
    /\ UNCHANGED <<ocSockets, timersPending, reconnectDelay, clientFrame, connFrames>>
    /\ ocConnected /\ evCount < lim
    /\ IF hasText THEN bufferAndBroadcast(1) ELSE UNCHANGED <<eventBuffer, clients, evCount>>
    /\ UNCHANGED <<openclawWs, ocConnected, agentBusy, reconnectAttempts, reconnectTimer,
                   taskStatus, connectReq, pendingSends>>

\* chat event, state final: agentBusy = false; done
OcChatFinal(lim) ==
    /\ GOnly
    /\ UNCHANGED <<ocSockets, timersPending, reconnectDelay, clientFrame, connFrames>>
    /\ ocConnected /\ evCount < lim
    /\ agentBusy' = FALSE
    /\ bufferAndBroadcast(1)
    /\ UNCHANGED <<openclawWs, ocConnected, reconnectAttempts, reconnectTimer, taskStatus,
                   connectReq, pendingSends>>

\* chat event, state error: agentBusy = false; error
OcChatError(lim) ==
    /\ GOnly
    /\ UNCHANGED <<ocSockets, timersPending, reconnectDelay, clientFrame, connFrames>>
    /\ ocConnected /\ evCount < lim
    /\ agentBusy' = FALSE
    /\ bufferAndBroadcast(1)
    /\ UNCHANGED <<openclawWs, ocConnected, reconnectAttempts, reconnectTimer, taskStatus,
                   connectReq, pendingSends>>

\* chat event, state aborted: agentBusy = false; done
OcChatAborted(lim) ==
    /\ GOnly
    /\ UNCHANGED <<ocSockets, timersPending, reconnectDelay, clientFrame, connFrames>>
    /\ ocConnected /\ evCount < lim
    /\ agentBusy' = FALSE
    /\ bufferAndBroadcast(1)
    /\ UNCHANGED <<openclawWs, ocConnected, reconnectAttempts, reconnectTimer, taskStatus,
                   connectReq, pendingSends>>

\* agent event, stream tool: phase start gives tool_start and tool_use, result gives tool_result
OcAgentTool(lim, phase) ==
    /\ GOnly
    /\ UNCHANGED <<ocSockets, timersPending, reconnectDelay, clientFrame, connFrames>>
    /\ ocConnected
    /\ IF phase = "start"
       THEN evCount + 2 <= lim /\ bufferAndBroadcast(2)
       ELSE evCount < lim /\ bufferAndBroadcast(1)
    /\ UNCHANGED <<openclawWs, ocConnected, agentBusy, reconnectAttempts, reconnectTimer,
                   taskStatus, connectReq, pendingSends>>

\* res ok with payload.runId: chat.send acknowledged
OcResAck ==
    /\ GOnly
    /\ UNCHANGED <<ocSockets, timersPending, reconnectDelay, clientFrame, connFrames>>
    /\ ocConnected /\ pendingSends > 0
    /\ pendingSends' = pendingSends - 1
    /\ agentBusy' = TRUE
    /\ UNCHANGED <<openclawWs, ocConnected, reconnectAttempts, reconnectTimer, taskStatus,
                   eventBuffer, clients, evCount, connectReq>>

\* res not ok with an error: the error is buffered and broadcast, nothing else changes.
\* The failed request is a chat.send (isConnect = FALSE) or the connect request.
OcResError(lim, isConnect) ==
    /\ GOnly
    /\ UNCHANGED <<ocSockets, timersPending, reconnectDelay, clientFrame, connFrames>>
    /\ openclawWs = "open" /\ evCount < lim
    /\ IF isConnect
       THEN connectReq /\ connectReq' = FALSE /\ UNCHANGED pendingSends
       ELSE ocConnected /\ pendingSends > 0 /\ pendingSends' = pendingSends - 1
            /\ UNCHANGED connectReq
    /\ bufferAndBroadcast(1)
    /\ UNCHANGED <<openclawWs, ocConnected, agentBusy, reconnectAttempts, reconnectTimer,
                   taskStatus>>

\* a reconnect that schedules with the attempt counter after its increment
scheduleReconnectCountsFirst ==
    IF reconnectTimer
    THEN UNCHANGED <<reconnectTimer, reconnectAttempts, timersPending, reconnectDelay>>
    ELSE /\ reconnectDelay' = DoubledUpTo(RECONNECT_BASE_MS, reconnectAttempts + 1,
                                          RECONNECT_MAX_MS)
         /\ reconnectTimer' = TRUE /\ reconnectAttempts' = reconnectAttempts + 1
         /\ timersPending' = timersPending + 1

\* scheduleReconnect(): no second timer; the attempt counter grows with each schedule
scheduleReconnect ==
    IF reconnectTimer
    THEN UNCHANGED <<reconnectTimer, reconnectAttempts, timersPending, reconnectDelay>>
    ELSE /\ reconnectDelay' = DoubledUpTo(RECONNECT_BASE_MS, reconnectAttempts,
                                          RECONNECT_MAX_MS)
         /\ reconnectTimer' = TRUE /\ reconnectAttempts' = reconnectAttempts + 1
         /\ timersPending' = timersPending + 1

\* openclawWs.on('close') of an upstream socket that has not closed yet, explored up to
\* the given number of reconnect attempts
OcCloseWithin(attempts) ==
    /\ GOnly
    /\ ocSockets > 0 /\ reconnectAttempts < attempts
    /\ ocSockets' = ocSockets - 1
    /\ ocConnected' = FALSE
    /\ agentBusy' = FALSE
    /\ openclawWs' = "null"
    /\ connectReq' = FALSE
    /\ pendingSends' = 0
    /\ scheduleReconnect
    /\ UNCHANGED <<taskStatus, eventBuffer, clients, evCount, clientFrame, connFrames>>

OcClose ==
    /\ ocSockets > 0
    /\ OcCloseWithin(MaxAttempts)

\* the same close in a run long enough for the delay to reach RECONNECT_MAX_MS
OcCloseLong ==
    /\ ocSockets > 0
    /\ OcCloseWithin(MaxBackoffAttempts)

\* mutant: the reconnect timer keeps firing (an interval, not a timeout)
ReconnectFireRepeats ==
    /\ GOnly
    /\ timersPending > 0
    /\ connectToOpenClaw
    /\ UNCHANGED <<ocConnected, agentBusy, reconnectAttempts, taskStatus, eventBuffer,
                   clients, evCount, pendingSends, clientFrame, connFrames,
                   timersPending, reconnectTimer, reconnectDelay>>

\* the reconnect timeout fires
ReconnectFire ==
    /\ GOnly
    /\ timersPending > 0
    /\ timersPending' = timersPending - 1
    /\ reconnectTimer' = FALSE
    /\ reconnectDelay' = 0
    /\ connectToOpenClaw
    /\ UNCHANGED <<ocConnected, agentBusy, reconnectAttempts, taskStatus, eventBuffer,
                   clients, evCount, pendingSends, clientFrame, connFrames>>

(***************************************************************************)
(* Downstream clients.                                                     *)
(***************************************************************************)
\* { type: 'history', events: [...eventBuffer] }
HistoryFrame(buf) == buf

\* the status frame: { type: 'status', agentBusy, humanCount, supervisorConnected, ocConnected }
StatusFrame(cl) ==
    [agentBusy |-> agentBusy, humanCount |-> getHumanCount(cl),
     supervisorConnected |-> isSupervisorConnected(cl), ocConnected |-> ocConnected]

\* mutant: the connection handler sends status before history
ConnectionFramesStatusFirst(cl) ==
    [types |-> <<"status", "history">>
                 \o (IF taskStatus # "null" THEN <<"task_status">> ELSE <<>>),
     status |-> StatusFrame(cl)]

\* the frames of the connection handler in the order of its sendTo calls
ConnectionFrames(cl) ==
    [types |-> <<"history", "status">>
                 \o (IF taskStatus # "null" THEN <<"task_status">> ELSE <<>>),
     status |-> StatusFrame(cl)]

NoFrame == [type |-> "none", to |-> {}, humans |-> 0, supervisorConnected |-> FALSE]

\* broadcast({ type: 'client_change', humans, supervisorConnected })
ClientChangeFrame(cl) ==
    [type |-> "client_change", to |-> {c \in ClientIds : cl[c].open},
     humans |-> getHumanCount(cl), supervisorConnected |-> isSupervisorConnected(cl)]

\* sendTo(client, { type: 'error', error: 'OpenClaw not connected yet, please wait' })
NotConnectedFrame(c) ==
    [type |-> "error", to |-> {c}, humans |-> 0, supervisorConnected |-> FALSE]

\* broadcast({ type: 'task_status', task })
TaskStatusFrame(cl) ==
    [type |-> "task_status", to |-> {c \in ClientIds : cl[c].open}, humans |-> 0,
     supervisorConnected |-> FALSE]

\* wss.on('connection'): the client is added and sent history, status and, when a task
\* status is known, task_status
onConnection(c) ==
    /\ ~clients[c].open
    /\ clients' = [clients EXCEPT ![c] =
                     [open |-> TRUE, role |-> "null", hist |-> HistoryFrame(eventBuffer),
                      live |-> <<>>, connAt |-> evCount]]
    /\ connFrames' = ConnectionFrames(clients')
    /\ UNCHANGED <<openclawWs, ocConnected, agentBusy, reconnectAttempts, reconnectTimer,
                   taskStatus, eventBuffer, evCount, connectReq, pendingSends,
                   ocSockets, timersPending, reconnectDelay, clientFrame>>

ClientConnect(c) == GOnly /\ onConnection(c)

\* message identify: the role is set; client_change is broadcast when the new or the old
\* role is human
onIdentify(c, role) ==
    /\ clients[c].open /\ role \in {"human", "supervisor"} /\ clients[c].role # role
    /\ clients' = [clients EXCEPT ![c].role = role]
    /\ clientFrame' = IF role = "human" \/ clients[c].role = "human"
                      THEN ClientChangeFrame(clients') ELSE NoFrame
    /\ UNCHANGED <<openclawWs, ocConnected, agentBusy, reconnectAttempts, reconnectTimer,
                   taskStatus, eventBuffer, evCount, connectReq, pendingSends,
                   ocSockets, timersPending, reconnectDelay, connFrames>>

ClientIdentify(c, role) == GOnly /\ onIdentify(c, role)

\* message task_status: taskStatus = msg.task || null, broadcast when it changed
ClientTaskStatus(c, task) ==
    /\ GOnly
    /\ clients[c].open /\ task \in {"null", "known"}
    /\ taskStatus' = task
    /\ clientFrame' = IF task # taskStatus THEN TaskStatusFrame(clients) ELSE NoFrame
    /\ UNCHANGED <<openclawWs, ocConnected, agentBusy, reconnectAttempts, reconnectTimer,
                   eventBuffer, clients, evCount, connectReq, pendingSends,
                   ocSockets, timersPending, reconnectDelay, connFrames>>

\* sendToAgent(text): refused unless the socket is open and the handshake is done
sendToAgent ==
    IF openclawWs # "open" \/ ~ocConnected
    THEN UNCHANGED <<agentBusy, pendingSends>>
    ELSE agentBusy' = TRUE /\ pendingSends' = pendingSends + 1

\* mutant: the "not connected yet" error goes through bufferAndBroadcast
ClientUserMessageBroadcastsError(c) ==
    /\ GOnly
    /\ clients[c].open /\ pendingSends < MaxPending
    /\ IF ocConnected
       THEN sendToAgent /\ UNCHANGED <<eventBuffer, clients, evCount>>
       ELSE UNCHANGED <<agentBusy, pendingSends>> /\ bufferAndBroadcast(1)
    /\ clientFrame' = NoFrame
    /\ UNCHANGED <<openclawWs, ocConnected, reconnectAttempts, reconnectTimer, taskStatus,
                   connectReq, ocSockets, timersPending, reconnectDelay, connFrames>>

\* message user_message: forwarded when ocConnected, else an error frame to the sender only
ClientUserMessage(c) ==
    /\ GOnly
    /\ clients[c].open /\ pendingSends < MaxPending
    /\ IF ocConnected
       THEN sendToAgent /\ clientFrame' = NoFrame
       ELSE UNCHANGED <<agentBusy, pendingSends>> /\ clientFrame' = NotConnectedFrame(c)
    /\ UNCHANGED <<openclawWs, ocConnected, reconnectAttempts, reconnectTimer, taskStatus,
                   eventBuffer, clients, evCount, connectReq, ocSockets, timersPending,
                   reconnectDelay,
                   connFrames>>

\* clientWs.on('close'): the client is removed; client_change is broadcast when it was human
onClientClose(c) ==
    /\ clients[c].open
    /\ clients' = [clients EXCEPT ![c] = NoClient]
    /\ clientFrame' = IF clients[c].role = "human" THEN ClientChangeFrame(clients')
                      ELSE NoFrame
    /\ UNCHANGED <<openclawWs, ocConnected, agentBusy, reconnectAttempts, reconnectTimer,
                   taskStatus, eventBuffer, evCount, connectReq, pendingSends,
                   ocSockets, timersPending, reconnectDelay, connFrames>>

ClientClose(c) == GOnly /\ onClientClose(c)

(***************************************************************************)
(* Control plane: a project created with an instance type, its dedicated   *)
(* worker, the sandbox and the workspace volume on the worker and on the   *)
(* control-plane host, and the restart and resize request handlers.        *)
(***************************************************************************)
NoVolume == [exists |-> FALSE, files |-> {}]

\* docker volume create: a no-op when the volume is there, else a new empty volume
EnsureVolume(v) == IF v.exists THEN v ELSE [exists |-> TRUE, files |-> {}]

\* getWorkerUrl(): a URL only when the worker row says ready
getWorkerUrl == cpWorkerStatus = "ready"

\* waitForWorkerReady, first half: the instance runs and has an IP (or the wait throws
\* and the catch of provisionWorker records error)
ProvisionRunning ==
    /\ COnly
    /\ provPc = "wait"
    /\ \E ok \in BOOLEAN :
         IF ok THEN cpWorkerStatus' = "bootstrapping" /\ provPc' = "health"
               ELSE cpWorkerStatus' = "error" /\ provPc' = "done"
    /\ UNCHANGED <<cpProjectStatus, cpWorkerType, wContainer, wVolume, lContainer, lVolume,
                   resizePc, resizeType, resizeResult, filesBefore, resizes,
                   restartFiles>>

\* waitForWorkerReady, second half: the worker agent answers /health, or the poll times out
ProvisionHealth ==
    /\ COnly
    /\ provPc = "health"
    /\ provPc' = "done"
    /\ \E ok \in BOOLEAN : cpWorkerStatus' = IF ok THEN "ready" ELSE "error"
    /\ UNCHANGED <<cpProjectStatus, cpWorkerType, wContainer, wVolume, lContainer, lVolume,
                   resizePc, resizeType, resizeResult, filesBefore, resizes,
                   restartFiles>>

\* worker agent, destroyContainer(removeVolume): docker stop, docker rm -f, and
\* docker volume rm when removeVolume
WorkerDestroyContainer(removeVolume) ==
    /\ wContainer' = FALSE
    /\ wVolume' = IF removeVolume THEN NoVolume ELSE wVolume

\* worker agent, createContainer(env): the volume is ensured, the sandbox is run on it
WorkerCreateContainer(vol) ==
    /\ wContainer' = TRUE
    /\ wVolume' = EnsureVolume(vol)

\* docker service of the control-plane host, removeContainer(name, removeVolume = true)
removeContainer(removeVolume) ==
    /\ lContainer' = FALSE
    /\ lVolume' = IF removeVolume THEN NoVolume ELSE lVolume

\* docker service of the control-plane host, createContainer(opts)
LocalCreateContainer(vol) ==
    /\ lContainer' = TRUE
    /\ lVolume' = EnsureVolume(vol)

\* destroyProjectContainer(name): worker mode posts /container/destroy with
\* removeVolume: true and ignores a failed request; local mode removes the local
\* sandbox with the default removeVolume
destroyProjectContainer ==
    IF getWorkerUrl
    THEN /\ \E reached \in BOOLEAN :
              IF reached THEN WorkerDestroyContainer(TRUE)
                         ELSE UNCHANGED <<wContainer, wVolume>>
         /\ UNCHANGED <<lContainer, lVolume>>
    ELSE /\ removeContainer(TRUE)
         /\ UNCHANGED <<wContainer, wVolume>>

\* createProjectContainer(name).
\* reached: the request reached the worker agent; healthy: the gateway of the new
\* sandbox answers before the health timeout.  On the control-plane host docker refuses
\* to create a second container of the same name, and the exception leaves the project
\* row as it was.
createProjectContainer(reached, healthy) ==
    IF getWorkerUrl
    THEN /\ IF reached THEN WorkerCreateContainer(wVolume)
                       ELSE UNCHANGED <<wContainer, wVolume>>
         /\ UNCHANGED <<lContainer, lVolume>>
         /\ cpProjectStatus' = IF reached /\ healthy THEN "running" ELSE "error"
    ELSE IF lContainer
    THEN UNCHANGED <<wContainer, wVolume, lContainer, lVolume, cpProjectStatus>>
    ELSE /\ LocalCreateContainer(lVolume)
         /\ UNCHANGED <<wContainer, wVolume>>
         /\ cpProjectStatus' = IF healthy THEN "running" ELSE "error"

\* TRUE iff createProjectContainer returns without throwing
createProjectContainerOk(reached, healthy) ==
    IF getWorkerUrl THEN reached /\ healthy ELSE ~lContainer /\ healthy

\* a restart that removes the workspace volume with the sandbox: destroyContainer(true)
\* on the worker, removeContainer(name) with its default on the control-plane host
RestartProjectRemovesVolume(reached, healthy) ==
    /\ COnly
    /\ resizePc = "idle"
    /\ IF getWorkerUrl
       THEN /\ IF reached THEN WorkerCreateContainer(NoVolume)
                          ELSE UNCHANGED <<wContainer, wVolume>>
            /\ UNCHANGED <<lContainer, lVolume>>
            /\ cpProjectStatus' = IF ~reached THEN "creating"
                                  ELSE IF healthy THEN "running" ELSE "error"
       ELSE /\ LocalCreateContainer(NoVolume)
            /\ UNCHANGED <<wContainer, wVolume>>
            /\ cpProjectStatus' = IF healthy THEN "running" ELSE "error"
    /\ restartFiles' = IF getWorkerUrl THEN [restartFiles EXCEPT !.worker = wVolume.files]
                                        ELSE [restartFiles EXCEPT !.local = lVolume.files]
    /\ UNCHANGED <<cpWorkerStatus, cpWorkerType, resizePc, resizeType, resizeResult, provPc,
                   filesBefore, resizes>>

\* POST /api/projects/:name/restart, restartProjectContainer.
\* Worker mode: status creating, then /container/restart on the worker, which is
\* destroyContainer(false) followed by createContainer.  Local mode:
\* removeContainer(name, false), status creating, createProjectContainer.
RestartProject(reached, healthy) ==
    /\ COnly
    /\ resizePc = "idle"
    /\ IF getWorkerUrl
       THEN /\ IF reached THEN WorkerCreateContainer(wVolume)
                          ELSE UNCHANGED <<wContainer, wVolume>>
            /\ UNCHANGED <<lContainer, lVolume>>
            /\ cpProjectStatus' = IF ~reached THEN "creating"
                                  ELSE IF healthy THEN "running" ELSE "error"
       ELSE /\ LocalCreateContainer(lVolume)
            /\ UNCHANGED <<wContainer, wVolume>>
            /\ cpProjectStatus' = IF healthy THEN "running" ELSE "error"
    /\ restartFiles' = IF getWorkerUrl THEN [restartFiles EXCEPT !.worker = wVolume.files]
                                        ELSE [restartFiles EXCEPT !.local = lVolume.files]
    /\ UNCHANGED <<cpWorkerStatus, cpWorkerType, resizePc, resizeType, resizeResult, provPc,
                   filesBefore, resizes>>

\* a process of the running sandbox writes file f under /workspace (the volume mounted
\* by docker run -v VOLUME:/workspace)
SandboxWrite(f) ==
    /\ COnly
    /\ resizePc = "idle"
    /\ \/ /\ wContainer /\ f \notin wVolume.files
          /\ wVolume' = [wVolume EXCEPT !.files = @ \cup {f}]
          /\ UNCHANGED lVolume
       \/ /\ lContainer /\ f \notin lVolume.files
          /\ lVolume' = [lVolume EXCEPT !.files = @ \cup {f}]
          /\ UNCHANGED wVolume
    /\ UNCHANGED <<cpProjectStatus, cpWorkerStatus, cpWorkerType, wContainer, lContainer,
                   resizePc, resizeType, resizeResult, provPc, filesBefore, resizes,
                   restartFiles>>

\* POST /api/projects/:name/resize arrives (project and worker rows exist, body valid)
ResizeBegin(t) ==
    /\ COnly
    /\ resizePc = "idle" /\ resizes < MaxResizes
    /\ resizes' = resizes + 1
    /\ resizePc' = "destroy"
    /\ resizeType' = t
    /\ resizeResult' = "none"
    /\ filesBefore' = wVolume.files
    /\ UNCHANGED <<cpProjectStatus, cpWorkerStatus, cpWorkerType, wContainer, wVolume,
                   lContainer, lVolume, provPc, restartFiles>>

\* await destroyProjectContainer(project.name); status resizing
ResizeDestroy ==
    /\ COnly
    /\ resizePc = "destroy"
    /\ destroyProjectContainer
    /\ cpProjectStatus' = "resizing"
    /\ resizePc' = "stop"
    /\ UNCHANGED <<cpWorkerStatus, cpWorkerType, resizeType, resizeResult, provPc,
                   filesBefore, resizes,
                   restartFiles>>

\* resizeWorker: status stopping
ResizeWorkerStopping ==
    /\ COnly
    /\ resizePc = "stop"
    /\ cpWorkerStatus' = "stopping"
    /\ resizePc' = "ec2"
    /\ UNCHANGED <<cpProjectStatus, cpWorkerType, wContainer, wVolume, lContainer, lVolume,
                   resizeType, resizeResult, provPc, filesBefore, resizes,
                   restartFiles>>

\* resizeWorker: stop, modify type, start, read the addresses; any of the commands may
\* throw, which ends the request with 500 and leaves the rows as they are
ResizeWorkerEc2 ==
    /\ COnly
    /\ resizePc = "ec2"
    /\ \E ok \in BOOLEAN :
         IF ok
         THEN /\ cpWorkerStatus' = "bootstrapping"
              /\ cpWorkerType' = resizeType
              /\ resizePc' = "health"
              /\ UNCHANGED resizeResult
         ELSE /\ resizePc' = "idle"
              /\ resizeResult' = "error"
              /\ UNCHANGED <<cpWorkerStatus, cpWorkerType>>
    /\ UNCHANGED <<cpProjectStatus, wContainer, wVolume, lContainer, lVolume, resizeType,
                   provPc, filesBefore, resizes,
                   restartFiles>>

\* resizeWorker: the worker agent answers /health (status ready) or the poll times out
ResizeWorkerHealth ==
    /\ COnly
    /\ resizePc = "health"
    /\ \E ok \in BOOLEAN :
         IF ok
         THEN cpWorkerStatus' = "ready" /\ resizePc' = "create" /\ UNCHANGED resizeResult
         ELSE resizePc' = "idle" /\ resizeResult' = "error" /\ UNCHANGED cpWorkerStatus
    /\ UNCHANGED <<cpProjectStatus, cpWorkerType, wContainer, wVolume, lContainer, lVolume,
                   resizeType, provPc, filesBefore, resizes,
                   restartFiles>>

\* await createProjectContainer(project.name); res.json({ ok: true }) or 500
ResizeCreate ==
    /\ COnly
    /\ resizePc = "create"
    /\ \E reached \in BOOLEAN, healthy \in BOOLEAN :
         /\ createProjectContainer(reached, healthy)
         /\ resizeResult' = IF createProjectContainerOk(reached, healthy) THEN "ok" ELSE "error"
    /\ resizePc' = "idle"
    /\ UNCHANGED <<cpWorkerStatus, cpWorkerType, resizeType, provPc, filesBefore, resizes,
                   restartFiles>>

(***************************************************************************)
(* Supervisor: task documents and question helpers.                        *)
(* A task document keeps the fields the supervisor branches on: status,    *)
(* goal.verify_command (verify), limits.max_idle_turns (maxIdle),          *)
(* limits.max_turns (maxTurns, 0 for null), limits.max_duration_hours      *)
(* (timeLimit), progress.turns_completed (turns) and questions.  A         *)
(* question keeps id, priority, and whether answer and answered_at are set.*)
(***************************************************************************)
NoTask ==
    [present |-> FALSE, id |-> 0, status |-> "none", verify |-> FALSE, maxIdle |-> 0,
     maxTurns |-> 0, timeLimit |-> FALSE, turns |-> 0, questions |-> <<>>,
     reason |-> "none"]

\* the limits and goal a POST /task request may carry
TaskConfigs ==
    { [verify |-> FALSE, maxIdle |-> 20, maxTurns |-> 0, timeLimit |-> FALSE],
      [verify |-> TRUE,  maxIdle |-> 1,  maxTurns |-> 2, timeLimit |-> TRUE] }

\* a POST /task request with limits.max_turns = 1 and nothing else
LimitConfigs ==
    { [verify |-> FALSE, maxIdle |-> 20, maxTurns |-> 1, timeLimit |-> FALSE] }

\* POST /task requests that differ in limits.max_idle_turns only: 1, and absent, which
\* checkTaskCompletion reads as 20
IdleConfigs ==
    { [verify |-> FALSE, maxIdle |-> 1,  maxTurns |-> 0, timeLimit |-> FALSE],
      [verify |-> FALSE, maxIdle |-> 20, maxTurns |-> 0, timeLimit |-> FALSE] }

\* a POST /task request with a verify command and no limit but the default idle limit
VerifyConfigs ==
    { [verify |-> TRUE, maxIdle |-> 20, maxTurns |-> 0, timeLimit |-> FALSE] }

Priorities == {"blocking", "question"}

\* lengths of the text of a text_delta frame
TextLengths == {100}

\* loadTask(): the parsed task file, null when it is absent
loadTask(s) == s.taskFile

getUnansweredQuestions(task) == SelectSeq(task.questions, LAMBDA q : ~q.answer)

\* the filter without its priority test: every unanswered question blocks
UnansweredOfAnyPriority(task) == getUnansweredQuestions(task)

\* unanswered.filter(q => q.priority === 'blocking')
BlockingQuestions(task) ==
    SelectSeq(getUnansweredQuestions(task), LAMBDA q : q.priority = "blocking")

\* answered questions whose snapshot entry exists and is null
getNewlyAnsweredQuestions(task, seen) ==
    SelectSeq(task.questions,
              LAMBDA q : q.answer /\ q.id \in DOMAIN seen /\ seen[q.id] = FALSE)

QuestionIds(task) == {task.questions[i].id : i \in 1..Len(task.questions)}

QuestionById(task, id) ==
    CHOOSE q \in {task.questions[i] : i \in 1..Len(task.questions)} : q.id = id

\* snapshotAnswers(task): lastSeenAnswers[q.id] = q.answered_at || null
snapshotAnswers(task) ==
    [id \in QuestionIds(task) |-> QuestionById(task, id).answered_at]

\* a classification that tests the idle threshold before the empty turn
classifyTurnIdleFirst(chars, tools) ==
    IF chars < IDLE_CHARS_THRESHOLD /\ tools = 0 THEN "idle"
    ELSE IF chars = 0 /\ tools = 0 THEN "empty"
    ELSE IF tools >= PRODUCTIVE_TOOL_THRESHOLD THEN "productive"
    ELSE "ok"

\* classifyTurn()
classifyTurn(chars, tools) ==
    IF chars = 0 /\ tools = 0 THEN "empty"
    ELSE IF tools >= PRODUCTIVE_TOOL_THRESHOLD THEN "productive"
    ELSE IF chars < IDLE_CHARS_THRESHOLD /\ tools = 0 THEN "idle"
    ELSE "ok"

(***************************************************************************)
(* The supervisor's handlers are written as functions from the record of   *)
(* all supervisor-side variables to the record after the handler, so that  *)
(* a handler that calls another (sendPrompt, onTurnEnd, ...) composes.     *)
(***************************************************************************)
SupRec ==
    [state |-> state, turnCount |-> turnCount, consecutiveEmpty |-> consecutiveEmpty,
     consecutiveIdle |-> consecutiveIdle, humanCount |-> humanCount,
     supAgentBusy |-> supAgentBusy, connected |-> connected, turnTimer |-> turnTimer,
     delayTimer |-> delayTimer, resumeTimer |-> resumeTimer,
     taskPollTimer |-> taskPollTimer, needsInputTimer |-> needsInputTimer,
     turnTextChars |-> turnTextChars, turnToolCount |-> turnToolCount,
     firstPromptSent |-> firstPromptSent,
     productiveTurnsSinceVerify |-> productiveTurnsSinceVerify,
     currentTask |-> currentTask, lastSeenAnswers |-> lastSeenAnswers,
     taskFile |-> taskFile, gwHumans |-> gwHumans, gwBusy |-> gwBusy, gwOc |-> gwOc,
     gwRuns |-> gwRuns, statusDue |-> statusDue, errDue |-> errDue,
     lastPrompt |-> lastPrompt, turnOpen |-> turnOpen, opPaused |-> opPaused,
     humanPreempted |-> humanPreempted, verifyFailed |-> verifyFailed,
     turnDelay |-> turnDelay]

\* the turns explored: enough for a periodic verification when the task has a verify
\* command and no turn limit
TurnBound(r) ==
    IF r.taskFile.verify /\ r.taskFile.maxTurns = 0 THEN MaxVerifyTurns ELSE MaxTurns

\* the step that replaces the supervisor-side variables by the record r, explored up
\* to the given number of turns and length of a streak of empty or idle turns
CommitWithin(r, turns, streak) ==
    /\ SOnly
    /\ r.turnCount <= turns /\ r.gwRuns <= MaxRuns
    /\ r.taskFile.turns <= turns
    /\ r.consecutiveEmpty <= streak /\ r.consecutiveIdle <= streak
    /\ state' = r.state /\ turnCount' = r.turnCount
    /\ consecutiveEmpty' = r.consecutiveEmpty /\ consecutiveIdle' = r.consecutiveIdle
    /\ humanCount' = r.humanCount /\ supAgentBusy' = r.supAgentBusy
    /\ connected' = r.connected /\ turnTimer' = r.turnTimer /\ delayTimer' = r.delayTimer
    /\ resumeTimer' = r.resumeTimer /\ taskPollTimer' = r.taskPollTimer
    /\ needsInputTimer' = r.needsInputTimer /\ turnTextChars' = r.turnTextChars
    /\ turnToolCount' = r.turnToolCount /\ firstPromptSent' = r.firstPromptSent
    /\ productiveTurnsSinceVerify' = r.productiveTurnsSinceVerify
    /\ currentTask' = r.currentTask /\ lastSeenAnswers' = r.lastSeenAnswers
    /\ taskFile' = r.taskFile /\ gwHumans' = r.gwHumans /\ gwBusy' = r.gwBusy
    /\ gwOc' = r.gwOc /\ gwRuns' = r.gwRuns /\ statusDue' = r.statusDue
    /\ errDue' = r.errDue /\ lastPrompt' = r.lastPrompt /\ turnOpen' = r.turnOpen
    /\ opPaused' = r.opPaused /\ humanPreempted' = r.humanPreempted
    /\ verifyFailed' = r.verifyFailed
    /\ turnDelay' = IF r.delayTimer THEN r.turnDelay ELSE 0

Commit(r) == CommitWithin(r, TurnBound(r), MaxStreak)

\* scheduleTurnDelay(delay)
scheduleTurnDelay(s, delay) ==
    [s EXCEPT !.state = "DELAY", !.delayTimer = TRUE, !.turnDelay = delay]

\* the prompt sendPrompt chooses
PromptType(s) ==
    IF ~s.firstPromptSent THEN "full"
    ELSE IF s.consecutiveEmpty >= RECOVERY_RESET_THRESHOLD THEN "recovery-reset"
    ELSE IF s.consecutiveEmpty >= RECOVERY_DIRECTIVE_THRESHOLD THEN "recovery-directive"
    ELSE IF s.consecutiveEmpty >= RECOVERY_FULL_THRESHOLD THEN "recovery-full"
    ELSE IF s.consecutiveIdle >= 3 THEN "idle-check"
    ELSE "continuation"

\* buildContinuationPrompt(), question sections: the ids quoted under "Human Responses"
\* are the newly answered questions of the reloaded task, judged against the snapshot
\* as it is when the prompt is built
HumanResponses(task, disk, seen) ==
    IF task.present
    THEN LET freshTask == IF disk.present THEN disk ELSE task
             newly == getNewlyAnsweredQuestions(freshTask, seen)
         IN {newly[i].id : i \in 1..Len(newly)}
    ELSE {}

\* the gateway's user_message handler for a prompt of the supervisor: sendToAgent when
\* ocConnected, else an error frame to the sender
GatewayTakesPrompt(s) ==
    IF s.gwOc THEN [s EXCEPT !.gwBusy = TRUE, !.gwRuns = @ + 1]
    ELSE [s EXCEPT !.errDue = TRUE]

\* sendPrompt()
sendPrompt(s) ==
    IF s.state \in {"COMPLETED", "NEEDS_INPUT"} THEN s
    ELSE IF ~s.connected \/ s.supAgentBusy THEN scheduleTurnDelay(s, MIN_DELAY_MS)
    ELSE
      LET task == loadTask(s)
          seen == IF task.present THEN snapshotAnswers(task) ELSE s.lastSeenAnswers
      IN IF task.present /\ task.status # "running"
         THEN [s EXCEPT !.currentTask = task, !.lastSeenAnswers = seen,
                        !.state = "COMPLETED"]
         ELSE
           LET saved == IF task.present THEN [task EXCEPT !.turns = @ + 1] ELSE task
               ptype == PromptType(s)
               reset == ptype = "recovery-reset"
               cont  == ptype = "continuation"
               s1 == [s EXCEPT
                        !.currentTask = saved,
                        !.taskFile = saved,
                        !.turnCount = @ + 1,
                        !.turnTextChars = 0,
                        !.turnToolCount = 0,
                        !.firstPromptSent = TRUE,
                        !.consecutiveEmpty = IF reset THEN 0 ELSE @,
                        !.consecutiveIdle = IF reset THEN 0 ELSE @,
                        !.lastSeenAnswers =
                            IF cont /\ saved.present THEN snapshotAnswers(saved) ELSE seen,
                        !.lastPrompt =
                            [type |-> ptype,
                             answers |-> IF cont THEN HumanResponses(saved, saved, seen)
                                         ELSE {},
                             state |-> "PROMPTING"],
                        !.turnOpen = TRUE,
                        !.verifyFailed = FALSE,
                        !.state = "WAITING",
                        !.turnTimer = TRUE]
           IN GatewayTakesPrompt(s1)

\* completeTask(task, reason, metric): the document is saved as completed
completeTask(s, task, reason) ==
    LET t == [task EXCEPT !.status = "completed", !.reason = reason] IN
    [s EXCEPT !.taskFile = t, !.currentTask = t, !.state = "COMPLETED"]

\* stopTask(task, reason): the document is saved as stopped
stopTask(s, task, reason) ==
    LET t == [task EXCEPT !.status = "stopped", !.reason = reason] IN
    [s EXCEPT !.taskFile = t, !.currentTask = t, !.state = "COMPLETED"]

\* checkTaskCompletion(task, classification) with task = currentTask, running.
\* passed: the verify command yields a passing value; metric: it yields a number;
\* timeUp: max_duration_hours have elapsed.  The result is the record after the call
\* and the returned flag.
checkTaskCompletion(s, classification, passed, metric, timeUp) ==
    LET task == s.currentTask
        freshTask == loadTask(s)
    IN
    IF freshTask.present /\ freshTask.status = "completed"
    THEN IF freshTask.verify /\ ~passed
         THEN LET t == [freshTask EXCEPT !.status = "running"] IN
              [s |-> [s EXCEPT !.taskFile = t, !.currentTask = t, !.verifyFailed = TRUE],
               stopped |-> FALSE]
         ELSE [s |-> completeTask(s, freshTask,
                                  IF freshTask.verify THEN "agent_declared_verified"
                                  ELSE "agent_declared"),
               stopped |-> TRUE]
    ELSE
      LET productive == classification = "productive"
          counted == IF productive
                     THEN Min(s.productiveTurnsSinceVerify + 1, VERIFY_EVERY_N_TURNS)
                     ELSE s.productiveTurnsSinceVerify
          verifyNow == productive /\ task.verify /\ counted >= VERIFY_EVERY_N_TURNS
          s1 == [s EXCEPT !.productiveTurnsSinceVerify = IF verifyNow THEN 0 ELSE counted]
          \* a numeric, not passing value is stored with saveTask(task)
          s2 == IF verifyNow /\ ~passed /\ metric THEN [s1 EXCEPT !.taskFile = task] ELSE s1
      IN
      IF verifyNow /\ passed
      THEN [s |-> completeTask(s1, task, "verification_passed"), stopped |-> TRUE]
      ELSE IF s2.consecutiveIdle >= task.maxIdle
           THEN [s |-> stopTask(s2, task, "idle_timeout"), stopped |-> TRUE]
      ELSE IF task.timeLimit /\ timeUp
           THEN [s |-> stopTask(s2, task, "time_limit"), stopped |-> TRUE]
      ELSE IF task.maxTurns > 0 /\ task.turns >= task.maxTurns
           THEN [s |-> stopTask(s2, task, "turn_limit"), stopped |-> TRUE]
      ELSE [s |-> s2, stopped |-> FALSE]

\* startNeedsInputPoll(): any running poll is stopped, a new interval starts
startNeedsInputPoll(s) == [s EXCEPT !.needsInputTimer = TRUE]

stopNeedsInputPoll(s) == [s EXCEPT !.needsInputTimer = FALSE]

\* the switch of onTurnEnd over the classification: the counters after the turn
TurnCounters(s, classification) ==
    CASE classification \in {"productive", "ok"} ->
            [s EXCEPT !.consecutiveEmpty = 0, !.consecutiveIdle = 0]
      [] classification = "idle" ->
            [s EXCEPT !.consecutiveEmpty = 0, !.consecutiveIdle = @ + 1]
      [] classification = "empty" ->
            [s EXCEPT !.consecutiveEmpty = @ + 1, !.consecutiveIdle = @ + 1]
      [] classification = "error" ->
            [s EXCEPT !.consecutiveEmpty = @ + 1]

\* a delay that grows with the idle counter without the cap of MAX_IDLE_DELAY_MS
TurnDelayIdleUncapped(s, classification) ==
    CASE classification = "productive" -> MIN_DELAY_MS
      [] classification = "ok" -> MIN_DELAY_MS * 2
      [] classification = "idle" -> IDLE_DELAY_MS * s.consecutiveIdle
      [] classification = "empty" ->
            IF s.consecutiveEmpty >= EMPTY_THRESHOLD
            THEN DoubledUpTo(BACKOFF_DELAY_MS, s.consecutiveEmpty - EMPTY_THRESHOLD,
                             MAX_BACKOFF_MS)
            ELSE BACKOFF_DELAY_MS
      [] classification = "error" -> BACKOFF_DELAY_MS

\* the switch of onTurnEnd over the classification: the delay before the next prompt,
\* from the counters after the turn
TurnDelay(s, classification) ==
    CASE classification = "productive" -> MIN_DELAY_MS
      [] classification = "ok" -> MIN_DELAY_MS * 2
      [] classification = "idle" -> Min(IDLE_DELAY_MS * s.consecutiveIdle, MAX_IDLE_DELAY_MS)
      [] classification = "empty" ->
            IF s.consecutiveEmpty >= EMPTY_THRESHOLD
            THEN DoubledUpTo(BACKOFF_DELAY_MS, s.consecutiveEmpty - EMPTY_THRESHOLD,
                             MAX_BACKOFF_MS)
            ELSE BACKOFF_DELAY_MS
      [] classification = "error" -> BACKOFF_DELAY_MS

\* a classification that judges a timed-out turn by its metrics like any other
ClassificationByMetrics(result, chars, tools) ==
    IF result = "error" THEN "error" ELSE classifyTurn(chars, tools)

\* the classification onTurnEnd gives a turn that ended with result, from the metrics
\* streamed during the turn
Classification(result, chars, tools) ==
    IF result = "timeout" THEN "productive"
    ELSE IF result = "error" THEN "error"
    ELSE classifyTurn(chars, tools)

\* onTurnEnd(result), result in ok, error, timeout
onTurnEnd(s, result, passed, metric, timeUp) ==
    LET s0 == [s EXCEPT !.turnTimer = FALSE]
        classification == Classification(result, s.turnTextChars, s.turnToolCount)
        chk == IF s0.currentTask.present /\ s0.currentTask.status = "running"
               THEN checkTaskCompletion(s0, classification, passed, metric, timeUp)
               ELSE [s |-> s0, stopped |-> FALSE]
        s1 == chk.s
        running == s1.currentTask.present /\ s1.currentTask.status = "running"
        freshTask == IF loadTask(s1).present THEN loadTask(s1) ELSE s1.currentTask
        s2 == IF running THEN [s1 EXCEPT !.lastSeenAnswers = snapshotAnswers(freshTask)]
              ELSE s1
    IN
    IF chk.stopped THEN s1
    ELSE IF running /\ Len(BlockingQuestions(freshTask)) > 0
            /\ classification \in {"idle", "empty"}
         THEN startNeedsInputPoll([s2 EXCEPT !.currentTask = freshTask,
                                             !.state = "NEEDS_INPUT"])
    ELSE LET s3 == TurnCounters(s2, classification) IN
         IF s3.humanCount > 0 THEN [s3 EXCEPT !.state = "PAUSED"]
         ELSE scheduleTurnDelay(s3, TurnDelay(s3, classification))

\* the callback of the turn timeout
TurnTimeout(s, passed, metric, timeUp) ==
    onTurnEnd([s EXCEPT !.consecutiveEmpty = 0, !.consecutiveIdle = 0, !.turnOpen = FALSE],
              "timeout", passed, metric, timeUp)

\* the callback of the delay timeout
DelayTimeout(s) ==
    LET s1 == [s EXCEPT !.delayTimer = FALSE] IN
    IF s1.humanCount > 0 THEN [s1 EXCEPT !.state = "PAUSED"] ELSE sendPrompt(s1)

\* the callback of the needs-input poll interval
NeedsInputPoll(s) ==
    IF s.state # "NEEDS_INPUT" THEN stopNeedsInputPoll(s)
    ELSE
      LET freshTask == loadTask(s) IN
      IF ~freshTask.present
      THEN sendPrompt([stopNeedsInputPoll(s) EXCEPT !.currentTask = NoTask])
      ELSE IF freshTask.status # "running"
      THEN [stopNeedsInputPoll(s) EXCEPT !.currentTask = freshTask, !.state = "COMPLETED"]
      ELSE IF Len(getNewlyAnsweredQuestions(freshTask, s.lastSeenAnswers)) > 0
              \/ Len(BlockingQuestions(freshTask)) = 0
      THEN LET s1 == [stopNeedsInputPoll(s) EXCEPT !.currentTask = freshTask,
                                                   !.consecutiveIdle = 0,
                                                   !.consecutiveEmpty = 0]
           IN IF s1.humanCount > 0 THEN [s1 EXCEPT !.state = "PAUSED"] ELSE sendPrompt(s1)
      ELSE s

\* the callback of the task poll interval started by startTaskPoll()
TaskPoll(s) ==
    IF s.state \notin {"COMPLETED", "NEEDS_INPUT"} THEN s
    ELSE
      LET task == loadTask(s) IN
      IF task.present /\ task.status = "running"
      THEN LET s1 == [s EXCEPT !.currentTask = task, !.consecutiveIdle = 0,
                               !.consecutiveEmpty = 0, !.productiveTurnsSinceVerify = 0,
                               !.firstPromptSent = FALSE]
           IN IF s1.humanCount > 0 THEN [s1 EXCEPT !.state = "PAUSED"] ELSE sendPrompt(s1)
      ELSE IF ~task.present
      THEN LET s1 == [s EXCEPT !.currentTask = NoTask, !.consecutiveIdle = 0,
                               !.consecutiveEmpty = 0, !.firstPromptSent = FALSE]
           IN IF s1.humanCount > 0 THEN [s1 EXCEPT !.state = "PAUSED"] ELSE sendPrompt(s1)
      ELSE s

\* ResumeTimeout without the reload of the task and the look at its blocking questions
ResumeTimeoutSkipsQuestions(s) ==
    LET s1 == [s EXCEPT !.resumeTimer = FALSE] IN
    IF s1.humanCount = 0 /\ s1.state = "PAUSED"
    THEN LET s2 == [s1 EXCEPT !.consecutiveIdle = 0] IN
         IF s2.supAgentBusy THEN [s2 EXCEPT !.state = "WAITING"] ELSE sendPrompt(s2)
    ELSE s1

\* the callback of the resume timeout armed by onHumanCountChange
ResumeTimeout(s) ==
    LET s1 == [s EXCEPT !.resumeTimer = FALSE]
        freshTask == loadTask(s)
    IN
    IF s1.humanCount = 0 /\ s1.state = "PAUSED"
    THEN IF freshTask.present /\ freshTask.status = "running"
            /\ Len(BlockingQuestions(freshTask)) > 0
         THEN startNeedsInputPoll([s1 EXCEPT !.currentTask = freshTask,
                                             !.lastSeenAnswers = snapshotAnswers(freshTask),
                                             !.state = "NEEDS_INPUT"])
         ELSE LET s2 == [s1 EXCEPT !.consecutiveIdle = 0] IN
              IF s2.supAgentBusy THEN [s2 EXCEPT !.state = "WAITING"] ELSE sendPrompt(s2)
    ELSE s1

\* onHumanCountChange that leaves a pending delay alone when humans attach
onHumanCountChangeKeepsDelay(s, newCount) ==
    LET oldCount == s.humanCount
        s1 == [s EXCEPT !.humanCount = newCount]
    IN
    IF newCount > 0 /\ oldCount = 0
    THEN IF s1.state = "NEEDS_INPUT"
         THEN [stopNeedsInputPoll(s1) EXCEPT !.state = "PAUSED"]
         ELSE s1
    ELSE IF newCount = 0 /\ oldCount > 0
    THEN IF s1.state = "COMPLETED" THEN s1 ELSE [s1 EXCEPT !.resumeTimer = TRUE]
    ELSE s1

\* onHumanCountChange(newCount)
onHumanCountChange(s, newCount) ==
    LET oldCount == s.humanCount
        s1 == [s EXCEPT !.humanCount = newCount]
    IN
    IF newCount > 0 /\ oldCount = 0
    THEN IF s1.state = "DELAY" /\ s1.delayTimer
         THEN [s1 EXCEPT !.delayTimer = FALSE, !.state = "PAUSED"]
         ELSE IF s1.state = "NEEDS_INPUT"
         THEN [stopNeedsInputPoll(s1) EXCEPT !.state = "PAUSED"]
         ELSE s1
    ELSE IF newCount = 0 /\ oldCount > 0
    THEN IF s1.state = "COMPLETED" THEN s1 ELSE [s1 EXCEPT !.resumeTimer = TRUE]
    ELSE s1

\* message status
OnStatus(s, busy, humans, oc) ==
    LET s1 == [s EXCEPT !.supAgentBusy = busy, !.humanCount = humans] IN
    IF s1.state = "COMPLETED" THEN s1
    ELSE IF s1.state = "INIT" /\ ~busy /\ humans = 0 /\ oc THEN sendPrompt(s1)
    ELSE IF s1.state = "INIT" /\ (busy \/ humans > 0) THEN [s1 EXCEPT !.state = "PAUSED"]
    ELSE s1

\* message supervisor_control, action pause or resume
OnControl(s, action) ==
    IF action = "pause"
    THEN [stopNeedsInputPoll(s) EXCEPT !.turnTimer = FALSE, !.delayTimer = FALSE,
                                       !.resumeTimer = FALSE, !.state = "PAUSED",
                                       !.opPaused = TRUE]
    ELSE LET s1 == [s EXCEPT !.consecutiveEmpty = 0, !.consecutiveIdle = 0,
                             !.opPaused = FALSE]
         IN IF s1.state \in {"PAUSED", "COMPLETED", "NEEDS_INPUT"}
            THEN LET s2 == stopNeedsInputPoll(s1) IN
                 IF s2.supAgentBusy THEN [s2 EXCEPT !.state = "WAITING"]
                 ELSE sendPrompt(s2)
            ELSE s1

\* message text_delta (the length is kept up to the idle threshold)
OnTextDelta(s, len) ==
    [s EXCEPT !.turnTextChars = Min(@ + len, IDLE_CHARS_THRESHOLD)]

\* message tool_start (the count is kept up to the productive threshold)
OnToolStart(s) ==
    [s EXCEPT !.turnToolCount = Min(@ + 1, PRODUCTIVE_TOOL_THRESHOLD)]

\* message done
OnDone(s, passed, metric, timeUp) ==
    LET s0 == [s EXCEPT !.turnOpen = FALSE] IN
    IF s0.state = "WAITING" THEN onTurnEnd(s0, "ok", passed, metric, timeUp)
    ELSE IF s0.state = "PAUSED"
    THEN LET s1 == [s0 EXCEPT !.supAgentBusy = FALSE] IN
         IF s1.humanCount = 0 THEN sendPrompt([s1 EXCEPT !.consecutiveIdle = 0]) ELSE s1
    ELSE s0

\* message error
OnError(s, passed, metric, timeUp) ==
    LET s0 == [s EXCEPT !.turnOpen = FALSE] IN
    IF s0.state = "WAITING" THEN onTurnEnd(s0, "error", passed, metric, timeUp)
    ELSE [s0 EXCEPT !.supAgentBusy = FALSE]

\* ws.on('close'): frames on their way are lost with the connection
OnClose(s) ==
    [stopNeedsInputPoll(s) EXCEPT
        !.connected = FALSE, !.supAgentBusy = FALSE, !.turnTimer = FALSE,
        !.delayTimer = FALSE,
        !.state = IF s.state \in {"COMPLETED", "NEEDS_INPUT"} THEN s.state ELSE "INIT",
        !.firstPromptSent = FALSE, !.statusDue = FALSE, !.errDue = FALSE,
        !.turnOpen = FALSE]

\* lastSeenAnswers = {}
NoAnswers == [id \in {} |-> FALSE]

NoPrompt == [type |-> "none", answers |-> {}, state |-> "none"]

\* main(): a fresh supervisor process; the task is loaded, a terminal task puts the
\* process in COMPLETED, the task poll is started.  s gives the surroundings the
\* process starts in.
Main(s) ==
    [s EXCEPT
        !.state = IF loadTask(s).present /\ loadTask(s).status \in {"completed", "stopped"}
                  THEN "COMPLETED" ELSE "INIT",
        !.turnCount = 0, !.consecutiveEmpty = 0, !.consecutiveIdle = 0,
        !.humanCount = 0, !.supAgentBusy = FALSE, !.connected = FALSE,
        !.turnTimer = FALSE, !.delayTimer = FALSE, !.resumeTimer = FALSE,
        !.taskPollTimer = TRUE, !.needsInputTimer = FALSE,
        !.turnTextChars = 0, !.turnToolCount = 0, !.firstPromptSent = FALSE,
        !.productiveTurnsSinceVerify = 0,
        !.currentTask = loadTask(s), !.lastSeenAnswers = NoAnswers,
        !.statusDue = FALSE, !.errDue = FALSE, !.turnOpen = FALSE, !.opPaused = FALSE]

\* frames reach the supervisor in the order the gateway sent them: nothing overtakes
\* the status frame of a new connection or a pending error frame
LinkIdle == ~statusDue /\ ~errDue

(***************************************************************************)
(* Supervisor: connection, frames and timers.                              *)
(***************************************************************************)
\* ws.on('open') of connectToGateway(); the gateway's connection handler sends status
SupOpen ==
    /\ ~connected
    /\ Commit([SupRec EXCEPT !.connected = TRUE, !.statusDue = TRUE])

\* the status frame of the new connection arrives
SupStatusFrame ==
    /\ connected /\ statusDue
    /\ Commit(OnStatus([SupRec EXCEPT !.statusDue = FALSE], gwBusy, gwHumans, gwOc))

\* ws.on('close')
SupClose ==
    /\ connected
    /\ Commit(OnClose(SupRec))

\* POST /supervisor/control with pause or resume: the frame reaches the supervisor
SupControl(action) ==
    /\ connected /\ LinkIdle
    /\ action \in {"pause", "resume"}
    /\ Commit(OnControl(SupRec, action))

\* supervisor_control stop or restart: process.exit(0); the entrypoint starts a new
\* supervisor process
SupExit ==
    /\ connected /\ LinkIdle
    /\ Commit(Main(SupRec))

\* the gateway's error frame for a user_message it could not forward arrives
GatewayRefuses(passed, metric, timeUp) ==
    /\ connected /\ errDue /\ ~statusDue
    /\ Commit(OnError([SupRec EXCEPT !.errDue = FALSE], passed, metric, timeUp))

TurnTimerFire(passed, metric, timeUp) ==
    /\ turnTimer
    /\ Commit(TurnTimeout(SupRec, passed, metric, timeUp))

DelayTimerFire ==
    /\ delayTimer
    /\ Commit(DelayTimeout(SupRec))

ResumeTimerFire ==
    /\ resumeTimer
    /\ Commit(ResumeTimeout(SupRec))

TaskPollFire ==
    /\ taskPollTimer
    /\ Commit(TaskPoll(SupRec))

NeedsInputPollFire ==
    /\ needsInputTimer
    /\ Commit(NeedsInputPoll(SupRec))

(***************************************************************************)
(* Gateway and engine as the supervisor sees them.  A frame the gateway    *)
(* broadcasts is handled by a connected supervisor in the same step.       *)
(***************************************************************************)
\* a client identifies as human: client_change with the new count
HumanAttach ==
    /\ gwHumans < MaxHumans /\ (connected => LinkIdle)
    /\ LET s1 == [SupRec EXCEPT
                    !.gwHumans = @ + 1,
                    !.humanPreempted =
                        @ \/ (connected /\ state = "DELAY" /\ delayTimer /\ humanCount = 0)]
       IN Commit(IF connected THEN onHumanCountChange(s1, s1.gwHumans) ELSE s1)

\* a human client closes: client_change with the new count
HumanDetach ==
    /\ gwHumans > 0 /\ (connected => LinkIdle)
    /\ LET s1 == [SupRec EXCEPT !.gwHumans = @ - 1,
                                !.humanPreempted = @ /\ gwHumans - 1 > 0]
       IN Commit(IF connected THEN onHumanCountChange(s1, s1.gwHumans) ELSE s1)

\* user_message of a human client or POST /send-message: sendToAgent
UserMessage ==
    /\ gwOc
    /\ Commit([SupRec EXCEPT !.gwBusy = TRUE, !.gwRuns = @ + 1])

\* chat delta with text: text_delta
EngineTextDelta(len) ==
    /\ gwOc /\ gwRuns > 0 /\ connected /\ LinkIdle
    /\ Commit(OnTextDelta(SupRec, len))

\* agent tool event, phase start: tool_start
EngineToolStart ==
    /\ gwOc /\ gwRuns > 0 /\ connected /\ LinkIdle
    /\ Commit(OnToolStart(SupRec))

\* chat final or aborted: the gateway clears agentBusy and broadcasts done
EngineFinal(passed, metric, timeUp) ==
    /\ gwOc /\ gwRuns > 0 /\ (connected => LinkIdle)
    /\ LET s1 == [SupRec EXCEPT !.gwRuns = @ - 1, !.gwBusy = FALSE]
       IN Commit(IF connected THEN OnDone(s1, passed, metric, timeUp) ELSE s1)

\* chat error: the gateway clears agentBusy and broadcasts error
EngineChatError(passed, metric, timeUp) ==
    /\ gwOc /\ gwRuns > 0 /\ (connected => LinkIdle)
    /\ LET s1 == [SupRec EXCEPT !.gwRuns = @ - 1, !.gwBusy = FALSE]
       IN Commit(IF connected THEN OnError(s1, passed, metric, timeUp) ELSE s1)

\* failed response to chat.send: the gateway broadcasts error and keeps agentBusy
EngineResError(passed, metric, timeUp) ==
    /\ gwOc /\ gwRuns > 0 /\ (connected => LinkIdle)
    /\ LET s1 == [SupRec EXCEPT !.gwRuns = @ - 1]
       IN Commit(IF connected THEN OnError(s1, passed, metric, timeUp) ELSE s1)

\* the upstream socket closes: the gateway clears ocConnected and agentBusy, no frame
EngineClose ==
    /\ gwOc
    /\ Commit([SupRec EXCEPT !.gwOc = FALSE, !.gwBusy = FALSE, !.gwRuns = 0])

\* hello-ok: the gateway sets ocConnected and broadcasts status
EngineHello ==
    /\ ~gwOc /\ (connected => LinkIdle)
    /\ LET s1 == [SupRec EXCEPT !.gwOc = TRUE]
       IN Commit(IF connected THEN OnStatus(s1, s1.gwBusy, s1.gwHumans, TRUE) ELSE s1)

(***************************************************************************)
(* The task file: operator routes of the control plane, and the agent.     *)
(***************************************************************************)
\* POST /api/projects/:name/task
TaskCreate(cfg) ==
    /\ taskFile.id < MaxTasks
    /\ Commit([SupRec EXCEPT !.taskFile =
                 [present |-> TRUE, id |-> taskFile.id + 1, status |-> "running",
                  verify |-> cfg.verify, maxIdle |-> cfg.maxIdle,
                  maxTurns |-> cfg.maxTurns, timeLimit |-> cfg.timeLimit, turns |-> 0,
                  questions |-> <<>>, reason |-> "none"]])

\* POST /api/projects/:name/task/stop
TaskStop ==
    /\ taskFile.present /\ taskFile.status # "stopped"
    /\ Commit([SupRec EXCEPT !.taskFile.status = "stopped",
                             !.taskFile.reason = "manual_stop"])

\* POST /api/projects/:name/task/resume
TaskResume ==
    /\ taskFile.present /\ taskFile.status # "running"
    /\ Commit([SupRec EXCEPT !.taskFile.status = "running", !.taskFile.reason = "none"])

\* POST /api/projects/:name/task/respond {question_id, answer}
TaskRespond(i) ==
    /\ taskFile.present /\ i \in 1..Len(taskFile.questions)
    /\ ~taskFile.questions[i].answer
    /\ Commit([SupRec EXCEPT !.taskFile.questions[i].answer = TRUE,
                             !.taskFile.questions[i].answered_at = TRUE])

(***************************************************************************)
(* The same routes as they run: execInProjectContainer(cat) and            *)
(* writeTaskFile are two awaited commands in the sandbox, and the          *)
(* supervisor may load and save the file between them.  One route is in    *)
(* flight at a time.                                                       *)
(***************************************************************************)
\* every supervisor-side variable but the task file
supButTaskFile ==
    <<state, turnCount, consecutiveEmpty, consecutiveIdle, humanCount, supAgentBusy,
      connected, turnTimer, delayTimer, resumeTimer, taskPollTimer, needsInputTimer,
      turnTextChars, turnToolCount, firstPromptSent, productiveTurnsSinceVerify,
      currentTask, lastSeenAnswers, gwHumans, gwBusy, gwOc, gwRuns,
      statusDue, errDue, lastPrompt, turnOpen, opPaused, humanPreempted,
           verifyFailed, turnDelay>>

\* cat /workspace/.task.json has returned to the route op, which has parsed and changed
\* the document to doc and awaits writeTaskFile
TaskFileRead(op, doc) ==
    /\ cpTaskOp = "none" /\ taskFile.present
    /\ cpTaskOp' = op /\ cpTaskDoc' = doc
    /\ UNCHANGED <<gvars, cvars, svars, lvars, dvars, rvars, kvars, fvars, evars>>

\* POST /api/projects/:name/task/stop, up to await writeTaskFile
TaskStopRead ==
    /\ taskFile.present
    /\ TaskFileRead("stop", [taskFile EXCEPT !.status = "stopped",
                                             !.reason = "manual_stop"])

\* POST /api/projects/:name/task/resume, up to await writeTaskFile
TaskResumeRead ==
    /\ taskFile.present
    /\ TaskFileRead("resume", [taskFile EXCEPT !.status = "running", !.reason = "none"])

\* POST /api/projects/:name/task/respond {question_id, answer}, up to await writeTaskFile
TaskRespondRead(i) ==
    /\ i \in 1..Len(taskFile.questions)
    /\ TaskFileRead("respond", [taskFile EXCEPT !.questions[i].answer = TRUE,
                                                !.questions[i].answered_at = TRUE])

\* writeTaskFile(project.name, task) of the route in flight: the file is replaced
TaskFileWrite ==
    /\ cpTaskOp # "none"
    /\ taskFile' = cpTaskDoc
    /\ cpTaskOp' = "none" /\ cpTaskDoc' = NoTask
    /\ UNCHANGED <<gvars, cvars, lvars, dvars, rvars, kvars, fvars, evars, supButTaskFile>>

\* no task route has been called
TaskRouteInit == cpTaskOp = "none" /\ cpTaskDoc = NoTask

\* the agent, during a run, appends a question to the task file
AgentAsks(priority) ==
    /\ gwRuns > 0 /\ taskFile.present /\ taskFile.status = "running"
    /\ Len(taskFile.questions) < MaxQuestions
    /\ Commit([SupRec EXCEPT !.taskFile.questions =
                 Append(@, [id |-> <<taskFile.id, Len(taskFile.questions) + 1>>,
                            priority |-> priority, answer |-> FALSE,
                            answered_at |-> FALSE])])

\* the agent, during a run, sets the task's status to completed
AgentDeclaresComplete ==
    /\ gwRuns > 0 /\ taskFile.present /\ taskFile.status = "running"
    /\ Commit([SupRec EXCEPT !.taskFile.status = "completed"])

(***************************************************************************)
(* Initial state: every process just constructed.                          *)
(***************************************************************************)
GatewayInit ==
    /\ openclawWs = "connecting"      \* server.listen callback: connectToOpenClaw()
    /\ ocConnected = FALSE
    /\ agentBusy = FALSE
    /\ reconnectAttempts = 0
    /\ reconnectTimer = FALSE
    /\ taskStatus = "null"               \* no .task.json on disk at startup
    /\ eventBuffer = <<>>
    /\ clients = [c \in ClientIds |-> NoClient]
    /\ evCount = 0
    /\ connectReq = FALSE
    /\ pendingSends = 0
    /\ ocSockets = 1
    /\ timersPending = 0
    /\ reconnectDelay = 0
    /\ clientFrame = NoFrame
    /\ connFrames = [types |-> <<>>, status |-> StatusFrame(clients)]

\* files a sandbox process may write under /workspace
Files == {"notes.md", "model.bin"}

\* instance types of a resize request
InstanceTypes == {"t3.large", "c5.xlarge"}

\* POST /api/projects with an instance type has returned: project row creating, worker
\* row provisioning, waitForWorkerReady running in the background, no sandbox anywhere
ControlPlaneInit ==
    /\ cpProjectStatus = "creating"
    /\ cpWorkerStatus = "provisioning"
    /\ cpWorkerType = "t3.large"
    /\ wContainer = FALSE
    /\ wVolume = NoVolume
    /\ lContainer = FALSE
    /\ lVolume = NoVolume
    /\ resizePc = "idle"
    /\ resizeType = "t3.large"
    /\ resizeResult = "none"
    /\ provPc = "wait"
    /\ filesBefore = {}
    /\ restartFiles = [worker |-> {}, local |-> {}]
    /\ resizes = 0

\* main() has run in a sandbox without a task file; the gateway has not completed its
\* handshake with the engine yet
SupervisorInit ==
    /\ state = "INIT"
    /\ turnCount = 0 /\ consecutiveEmpty = 0 /\ consecutiveIdle = 0
    /\ humanCount = 0 /\ supAgentBusy = FALSE /\ connected = FALSE
    /\ turnTimer = FALSE /\ delayTimer = FALSE /\ resumeTimer = FALSE
    /\ taskPollTimer = TRUE /\ needsInputTimer = FALSE
    /\ turnTextChars = 0 /\ turnToolCount = 0 /\ firstPromptSent = FALSE
    /\ productiveTurnsSinceVerify = 0
    /\ currentTask = NoTask /\ lastSeenAnswers = NoAnswers
    /\ taskFile = NoTask
    /\ gwHumans = 0 /\ gwBusy = FALSE /\ gwOc = FALSE /\ gwRuns = 0
    /\ statusDue = FALSE /\ errDue = FALSE
    /\ lastPrompt = NoPrompt /\ turnOpen = FALSE /\ opPaused = FALSE
    /\ humanPreempted = FALSE /\ verifyFailed = FALSE /\ turnDelay = 0

(***************************************************************************)
(* The supervisor process and its sockets to the gateway: connectToGateway *)
(* after main() and after every close, the restart of main() after an      *)
(* uncaught exception.                                                     *)
(***************************************************************************)
\* connectToGateway(): ws = new WebSocket(...); the gateway's connection handler runs
connectToGateway(c) ==
    /\ onConnection(c)
    /\ supWs' = c
    /\ supSocks' = supSocks \cup {c}

\* a connectToGateway call that is due (main() past waitForBridge, or the 5 s timeout
\* of a close handler) runs
SupConnect(c) ==
    /\ LOnly
    /\ supConnects > 0
    /\ supConnects' = supConnects - 1
    /\ connectToGateway(c)
    /\ UNCHANGED <<supRestarts, supFaults>>

\* ws.on('open') of a socket of the supervisor: identify as supervisor reaches the gateway
SupIdentify(c) ==
    /\ LOnly
    /\ c \in supSocks
    /\ onIdentify(c, "supervisor")
    /\ UNCHANGED lvars

\* a socket of the supervisor closes: the gateway removes the client, the socket's close
\* handler sets the 5 s timeout for connectToGateway
SupSocketClose(c) ==
    /\ LOnly
    /\ c \in supSocks
    /\ onClientClose(c)
    /\ supSocks' = supSocks \ {c}
    /\ supConnects' = supConnects + 1
    /\ UNCHANGED <<supWs, supRestarts, supFaults>>

\* process.on('uncaughtException'): ws.close() on the current socket, whose close handler
\* then runs as for any close, and main() is set to run again in 30 s
SupUncaughtException ==
    /\ LOnly
    /\ supFaults < MaxFaults
    /\ supFaults' = supFaults + 1
    /\ supRestarts' = supRestarts + 1
    /\ IF supWs \in supSocks
       THEN /\ onClientClose(supWs)
            /\ supSocks' = supSocks \ {supWs}
            /\ supConnects' = supConnects + 1
       ELSE UNCHANGED <<gvars, supSocks, supConnects>>
    /\ UNCHANGED supWs

\* the 30 s timeout fires: main() loads the task, waits for the bridge and calls
\* connectToGateway()
SupRestartFire ==
    /\ LOnly
    /\ supRestarts > 0
    /\ supRestarts' = supRestarts - 1
    /\ supConnects' = supConnects + 1
    /\ UNCHANGED <<gvars, supWs, supSocks, supFaults>>

\* main() of the supervisor process has been called and waits for the bridge
LinkInit ==
    /\ supWs = 0
    /\ supSocks = {}
    /\ supConnects = 1
    /\ supRestarts = 0
    /\ supFaults = 0

(***************************************************************************)
(* The projects router on the database: create, list, destroy, secrets.    *)
(* Table projects has primary key name; table secrets has primary key      *)
(* (project_name, key) and a foreign key to projects ON DELETE CASCADE,    *)
(* enforced because getDb() sets foreign_keys = ON.                        *)
(***************************************************************************)
Names == {"alpha", "beta"}

SecretKeys == {"API_KEY"}

NoResponse == [op |-> "none", name |-> "none", code |-> 0]

\* the steps of a database route leave the other parts alone
DOnly == UNCHANGED <<gvars, cvars, svars, lvars, tvars, rvars, kvars, fvars, evars>>

\* db.getProject(name) !== undefined
getProject(rows, n) == \E i \in 1..Len(rows) : rows[i].name = n

\* db.insertProject(row): INSERT fails on a name the table holds (primary key)
insertProject(rows, row) ==
    IF getProject(rows, row.name) THEN rows ELSE <<row>> \o rows

\* db.updateProject(name, {status}): UPDATE ... WHERE name = @name
updateProject(rows, n, status) ==
    [i \in 1..Len(rows) |-> IF rows[i].name = n THEN [rows[i] EXCEPT !.status = status]
                                                ELSE rows[i]]

\* DELETE FROM projects WHERE name = ? that leaves the secrets of the project behind
deleteProjectKeepsSecrets(rows, secrets, n) ==
    [projects |-> SelectSeq(rows, LAMBDA r : r.name # n), secrets |-> secrets]

\* db.deleteProject(name): the row goes, and with it the secrets that reference it
deleteProject(rows, secrets, n) ==
    [projects |-> SelectSeq(rows, LAMBDA r : r.name # n),
     secrets |-> {x \in secrets : x[1] # n}]

\* GET /api/projects: one entry per row of listProjects(), in its order
listProjects == [i \in 1..Len(dbProjects) |-> dbProjects[i].name]

\* a create route that stores the row without looking for the name
CreateProjectNoConflict(n) ==
    /\ DOnly
    /\ creating = "none"
    /\ dbProjects' = <<[name |-> n, status |-> "creating"]>> \o dbProjects
    /\ creating' = n
    /\ UNCHANGED <<dbSecrets, destroying, apiResponse, created, cascaded>>

\* POST /api/projects {name, ...}: 409 when the name exists, else the row is inserted
\* with status creating and the handler awaits provisionWorker or createProjectContainer
CreateProject(n) ==
    /\ DOnly
    /\ creating = "none"
    /\ IF getProject(dbProjects, n)
       THEN /\ apiResponse' = [op |-> "create", name |-> n, code |-> 409]
            /\ UNCHANGED <<dbProjects, dbSecrets, creating, destroying, created, cascaded>>
       ELSE /\ dbProjects' = insertProject(dbProjects, [name |-> n, status |-> "creating"])
            /\ creating' = n
            /\ UNCHANGED <<dbSecrets, destroying, apiResponse, created, cascaded>>

\* the awaited call of the create handler returns (ok) or throws: 201 with the row read
\* back, 500 from the catch; reading back a row deleted meanwhile throws as well
CreateProjectDone(ok, worker) ==
    /\ DOnly
    /\ creating # "none"
    /\ creating' = "none"
    /\ LET present == getProject(dbProjects, creating)
           status == IF worker THEN "creating" ELSE IF ok THEN "running" ELSE "error"
       IN /\ dbProjects' = updateProject(dbProjects, creating, status)
          /\ apiResponse' = [op |-> "create", name |-> creating,
                             code |-> IF ok /\ present THEN 201 ELSE 500]
          /\ created' = IF ok /\ present THEN created \cup {creating} ELSE created
    /\ UNCHANGED <<dbSecrets, destroying, cascaded>>

\* DELETE /api/projects/:name: 404 when there is no row, else the handler awaits
\* destroyProjectContainer and terminateWorker
DestroyProject(n) ==
    /\ DOnly
    /\ destroying = "none"
    /\ IF getProject(dbProjects, n)
       THEN /\ destroying' = n
            /\ UNCHANGED <<dbProjects, dbSecrets, creating, apiResponse, created, cascaded>>
       ELSE /\ apiResponse' = [op |-> "destroy", name |-> n, code |-> 404]
            /\ UNCHANGED <<dbProjects, dbSecrets, creating, destroying, created, cascaded>>

\* the teardown returns (ok): db.deleteProject and 200; or it throws: 500
DestroyProjectDone(ok) ==
    /\ DOnly
    /\ destroying # "none"
    /\ destroying' = "none"
    /\ IF ok
       THEN LET after == deleteProject(dbProjects, dbSecrets, destroying)
            IN /\ dbProjects' = after.projects
               /\ dbSecrets' = after.secrets
               /\ created' = created \ {destroying}
               /\ cascaded' = cascaded \cup (dbSecrets \ after.secrets)
       ELSE UNCHANGED <<dbProjects, dbSecrets, created, cascaded>>
    /\ apiResponse' = [op |-> "destroy", name |-> destroying,
                       code |-> IF ok THEN 200 ELSE 500]
    /\ UNCHANGED creating

\* POST /api/projects/:name/secrets {key, value}: INSERT OR REPLACE
SetSecret(n, k) ==
    /\ DOnly
    /\ IF getProject(dbProjects, n)
       THEN /\ dbSecrets' = dbSecrets \cup {<<n, k>>}
            /\ apiResponse' = [op |-> "set_secret", name |-> n, code |-> 200]
       ELSE /\ apiResponse' = [op |-> "set_secret", name |-> n, code |-> 404]
            /\ UNCHANGED dbSecrets
    /\ UNCHANGED <<dbProjects, creating, destroying, created, cascaded>>

\* a fresh database, no request received
DbInit ==
    /\ dbProjects = <<>>
    /\ dbSecrets = {}
    /\ creating = "none"
    /\ destroying = "none"
    /\ apiResponse = NoResponse
    /\ created = {}
    /\ cascaded = {}

(***************************************************************************)
(* The chat relays: relay() of the control plane in its two copies, and    *)
(* the gateway proxy of the worker agent.  A session is a client socket    *)
(* and an upstream socket; the handlers of the upstream socket close the   *)
(* client socket.  Reasons are ASCII, so bytes and characters coincide.    *)
(***************************************************************************)
Relays == {"part_008", "openclaw-proxy.ts", "worker-agent.js"}

\* close codes an upstream socket reports
CloseCodes == {1000, 1001, 1006, 1011, 2999, 3000, 4004, 4999, 5000}

\* byte lengths of an upstream close reason (a close frame carries at most 123)
ReasonBytes == {0, 123}

\* byte lengths of err.message of an upstream error
MessageBytes == {20, 200}

\* 'Upstream error: '.length
UPSTREAM_ERROR_PREFIX == 16

\* the client socket before any close
ClientOpen == [open |-> TRUE, by |-> "none", upstream |-> 0, code |-> 0, bytes |-> 0]

ROnly == UNCHANGED <<gvars, cvars, svars, lvars, tvars, dvars, kvars, fvars, evars>>

\* const safeCode = (code >= 3000 && code <= 4999) || code === 1000 ? code : 1000
safeCode(code) == IF (code >= 3000 /\ code <= 4999) \/ code = 1000 THEN code ELSE 1000

\* String.prototype.slice(0, 123) on a string of n characters
slice123(n) == IF n <= 123 THEN n ELSE 123

\* the arguments of clientWs.close in upstreamWs.on('close', (code, reason) => ...)
closeArgs(r, code, bytes) ==
    IF r = "openclaw-proxy.ts" THEN [code |-> code, bytes |-> bytes]
    ELSE [code |-> safeCode(code), bytes |-> slice123(bytes)]

\* the arguments of clientWs.close in upstreamWs.on('error', (err) => ...)
errorArgs(r, bytes) ==
    IF r = "openclaw-proxy.ts"
    THEN [code |-> 4500, bytes |-> UPSTREAM_ERROR_PREFIX + bytes]
    ELSE [code |-> 1011, bytes |-> slice123(UPSTREAM_ERROR_PREFIX + bytes)]

\* upstreamWs.on('error'): the client socket is closed; the socket's close follows
RelayUpstreamError(r, bytes) ==
    /\ ROnly
    /\ relayUp[r] = "open"
    /\ relayUp' = [relayUp EXCEPT ![r] = "errored"]
    /\ relayClient' =
         IF relayClient[r].open
         THEN [relayClient EXCEPT ![r] =
                 [open |-> FALSE, by |-> "error", upstream |-> 0,
                  code |-> errorArgs(r, bytes).code, bytes |-> errorArgs(r, bytes).bytes]]
         ELSE relayClient

\* upstreamWs.on('close', (code, reason)): the client socket, when still open, is closed
RelayUpstreamClose(r, code, bytes) ==
    /\ ROnly
    /\ relayUp[r] \in {"open", "errored"}
    /\ relayUp[r] = "errored" => code = 1006
    /\ relayUp' = [relayUp EXCEPT ![r] = "closed"]
    /\ relayClient' =
         IF relayClient[r].open
         THEN [relayClient EXCEPT ![r] =
                 [open |-> FALSE, by |-> "close", upstream |-> code,
                  code |-> closeArgs(r, code, bytes).code,
                  bytes |-> closeArgs(r, code, bytes).bytes]]
         ELSE relayClient

\* clientWs.on('close'): the client went away, the upstream socket is closed when open
RelayClientClose(r) ==
    /\ ROnly
    /\ relayClient[r].open
    /\ relayClient' = [relayClient EXCEPT ![r] = [ClientOpen EXCEPT !.open = FALSE,
                                                                   !.by = "client"]]
    /\ UNCHANGED relayUp

(***************************************************************************)
(* The relays, client to gateway: relay() attaches the client's message    *)
(* listener inside upstreamWs.on('open').                                  *)
(***************************************************************************)
FOnly == UNCHANGED <<gvars, cvars, svars, lvars, tvars, dvars, rvars, kvars, evars>>

\* the client sends a frame on its established socket: the relay's listener, when there
\* is one, forwards it if the upstream socket is open; without a listener the frame is
\* dropped by the socket
RelayClientFrame(r) ==
    /\ FOnly
    /\ fwdSent[r] < MaxFrames
    /\ fwdSent' = [fwdSent EXCEPT ![r] = @ + 1]
    /\ fwdGot' = IF fwdUp[r] = "open"
                 THEN [fwdGot EXCEPT ![r] = Append(@, fwdSent[r] + 1)]
                 ELSE fwdGot
    /\ UNCHANGED fwdUp

\* upstreamWs.on('open'): the listeners of both directions are attached
RelayUpstreamOpen(r) ==
    /\ FOnly
    /\ fwdUp[r] = "connecting"
    /\ fwdUp' = [fwdUp EXCEPT ![r] = "open"]
    /\ UNCHANGED <<fwdSent, fwdGot>>

\* the upstream socket closes or fails
RelayUpstreamGone(r) ==
    /\ FOnly
    /\ fwdUp[r] # "closed"
    /\ fwdUp' = [fwdUp EXCEPT ![r] = "closed"]
    /\ UNCHANGED <<fwdSent, fwdGot>>

\* relay(clientWs, projectName) has created the upstream socket; the client's socket is
\* established
RelayFramesInit ==
    /\ fwdUp = [r \in Relays |-> "connecting"]
    /\ fwdSent = [r \in Relays |-> 0]
    /\ fwdGot = [r \in Relays |-> <<>>]

\* every relay has its client and its upstream socket open
RelayInit ==
    /\ relayUp = [r \in Relays |-> "open"]
    /\ relayClient = [r \in Relays |-> ClientOpen]

(***************************************************************************)
(* The classification of a turn, applied to the metrics a turn can end     *)
(* with.                                                                   *)
(***************************************************************************)
KOnly == UNCHANGED <<gvars, cvars, svars, lvars, tvars, dvars, rvars, fvars, evars>>

\* the argument of onTurnEnd: 'ok' for done, 'error', 'timeout'
EndSignals == {"ok", "error", "timeout"}

\* turnTextChars at the end of a turn
CharCounts == {0, 1, 100, 199, 200, 201, 1000}

\* turnToolCount at the end of a turn
ToolCounts == 0..MaxTools

NoTurnEnded == [result |-> "none", chars |-> 0, tools |-> 0, classification |-> "none"]

\* onTurnEnd(result) computes the classification of the turn from the metrics
ClassifyTurnEnd(result, chars, tools) ==
    /\ KOnly
    /\ turnEnded' = [result |-> result, chars |-> chars, tools |-> tools,
                     classification |-> Classification(result, chars, tools)]

ClassifyInit == turnEnded = NoTurnEnded

(***************************************************************************)
(* Sandbox environment: buildContainerEnv decrypts the stored ciphertexts  *)
(* of a project (the LLM credential, the secrets, the extra-env blob) and   *)
(* the create and restart flows hand its result to the sandbox.  An         *)
(* environment is the set of the variables it defines.                      *)
(***************************************************************************)
EOnly == UNCHANGED <<gvars, cvars, svars, lvars, tvars, dvars, rvars, kvars, fvars>>

\* the rows of the secrets table of the project
SecretNames == {"GITHUB_TOKEN", "NPM_TOKEN", "DATABASE_URL"}

\* projects.anthropic_api_key_enc, secrets.value_enc of each row, projects.env_enc
Ciphertexts == {"anthropic_api_key_enc", "env_enc"} \cup SecretNames

\* the variables of the JSON object encrypted into env_enc
ExtraEnv == {"EXTRA"}

\* the variables buildContainerEnv sets without decrypting anything
PlainEnv == {"PROJECT_NAME", "MCP_SERVERS", "WORKSPACE"}

NoOutcome == [result |-> "none", env |-> {}]

NoSandbox == [present |-> FALSE, env |-> {}]

\* decrypt(ciphertext): decipher.final throws when the tag does not verify
decrypt(c) == [threw |-> ~encIntact[c]]

\* buildContainerEnv(projectName): the credential and every secret are decrypted
\* outside any try; the extra env is decrypted and parsed inside try {} catch {}
buildContainerEnv ==
    IF decrypt("anthropic_api_key_enc").threw \/ \E k \in SecretNames : decrypt(k).threw
    THEN [threw |-> TRUE, env |-> {}]
    ELSE [threw |-> FALSE,
          env |-> PlainEnv \cup {"ANTHROPIC_API_KEY"} \cup SecretNames
                    \cup (IF decrypt("env_enc").threw THEN {} ELSE ExtraEnv)]

\* a stored ciphertext stops verifying (the row was altered, or ENCRYPTION_KEY changed)
CorruptCiphertext(c) ==
    /\ EOnly
    /\ encIntact[c]
    /\ encIntact' = [encIntact EXCEPT ![c] = FALSE]
    /\ UNCHANGED <<envOutcome, envSandbox>>

\* POST /api/projects/:name/secrets stores encrypt(value) under the current key
PutSecret(k) ==
    /\ EOnly
    /\ ~encIntact[k]
    /\ encIntact' = [encIntact EXCEPT ![k] = TRUE]
    /\ UNCHANGED <<envOutcome, envSandbox>>

\* createProjectContainer(name): the env is built first; a throw ends the call before
\* any sandbox is created
EnvCreateSandbox ==
    /\ EOnly
    /\ ~envSandbox.present
    /\ LET b == buildContainerEnv
       IN  IF b.threw
           THEN /\ envOutcome' = [result |-> "error", env |-> {}]
                /\ UNCHANGED envSandbox
           ELSE /\ envOutcome' = [result |-> "ok", env |-> b.env]
                /\ envSandbox' = [present |-> TRUE, env |-> b.env]
    /\ UNCHANGED encIntact

\* restartProjectContainer(name).  Worker mode builds the env, then posts
\* /container/restart; local mode removes the sandbox, then createProjectContainer
EnvRestartSandbox(worker) ==
    /\ EOnly
    /\ envSandbox.present
    /\ LET b == buildContainerEnv
       IN  IF b.threw
           THEN /\ envOutcome' = [result |-> "error", env |-> {}]
                /\ envSandbox' = IF worker THEN envSandbox ELSE NoSandbox
           ELSE /\ envOutcome' = [result |-> "ok", env |-> b.env]
                /\ envSandbox' = [present |-> TRUE, env |-> b.env]
    /\ UNCHANGED encIntact

\* destroyProjectContainer(name)
EnvDestroySandbox ==
    /\ EOnly
    /\ envSandbox.present
    /\ envSandbox' = NoSandbox
    /\ UNCHANGED <<encIntact, envOutcome>>

\* every ciphertext was written by encrypt() under the current key; no sandbox yet
EnvInit ==
    /\ encIntact = [c \in Ciphertexts |-> TRUE]
    /\ envOutcome = NoOutcome
    /\ envSandbox = NoSandbox

Init ==
    /\ GatewayInit /\ ControlPlaneInit /\ SupervisorInit /\ LinkInit /\ TaskRouteInit
    /\ DbInit /\ RelayInit /\ ClassifyInit /\ RelayFramesInit /\ EnvInit

(***************************************************************************)
(* SpecHistory: the event stream, the history ring and the clients.        *)
(***************************************************************************)
HistoryNext ==
    \/ OcOpen
    \/ OcChallenge
    \/ OcHelloOk
    \/ \E t \in BOOLEAN : OcChatDelta(MaxEvents, t)
    \/ OcChatFinal(MaxEvents)
    \/ OcChatError(MaxEvents)
    \/ OcChatAborted(MaxEvents)
    \/ \E p \in {"start", "result"} : OcAgentTool(MaxEvents, p)
    \/ \E c \in ClientIds : ClientConnect(c)
    \/ \E c \in ClientIds : ClientClose(c)

SpecHistory == Init /\ [][HistoryNext]_vars

(***************************************************************************)
(* SpecGateway: the whole gateway, with a short event stream.              *)
(***************************************************************************)
GatewayNext ==
    \/ OcOpen
    \/ OcChallenge
    \/ OcHelloOk
    \/ \E t \in BOOLEAN : OcChatDelta(MaxLive, t)
    \/ OcChatFinal(MaxLive)
    \/ OcChatError(MaxLive)
    \/ OcChatAborted(MaxLive)
    \/ \E p \in {"start", "result"} : OcAgentTool(MaxLive, p)
    \/ OcResAck
    \/ \E b \in BOOLEAN : OcResError(MaxLive, b)
    \/ OcClose
    \/ ReconnectFire
    \/ \E c \in ClientIds : ClientConnect(c)
    \/ \E c \in ClientIds, r \in Roles : ClientIdentify(c, r)
    \/ \E c \in ClientIds : ClientUserMessage(c)
    \/ \E c \in ClientIds : ClientClose(c)

SpecGateway == Init /\ [][GatewayNext]_vars

(***************************************************************************)
(* SpecRing: a long event stream and one client that connects at any point *)
(* of it.                                                                  *)
(***************************************************************************)
RingNext ==
    \/ OcOpen
    \/ OcChallenge
    \/ OcHelloOk
    \/ \E t \in BOOLEAN : OcChatDelta(MaxRing, t)
    \/ OcChatFinal(MaxRing)
    \/ \E p \in {"start", "result"} : OcAgentTool(MaxRing, p)
    \/ ClientConnect(1)
    \/ ClientClose(1)

SpecRing == Init /\ [][RingNext]_vars

(***************************************************************************)
(* Reconnect: the upstream socket closes again and again, with and without *)
(* a completed handshake in between, around two clients.                   *)
(***************************************************************************)
ReconnectNext ==
    \/ OcOpen
    \/ OcChallenge
    \/ OcHelloOk
    \/ OcCloseLong
    \/ ReconnectFire
    \/ \E c \in ClientIds : ClientConnect(c)
    \/ \E c \in ClientIds : ClientClose(c)

SpecReconnect == Init /\ [][ReconnectNext]_vars

(***************************************************************************)
(* SpecClients: the gateway's client handlers (connection, identify,       *)
(* task_status, user_message, close) around the upstream session.          *)
(***************************************************************************)
ClientsNext ==
    \/ OcOpen
    \/ OcChallenge
    \/ OcHelloOk
    \/ \E t \in BOOLEAN : OcChatDelta(MaxClientEvents, t)
    \/ OcChatFinal(MaxClientEvents)
    \/ OcResAck
    \/ OcClose
    \/ ReconnectFire
    \/ \E c \in ClientIds : ClientConnect(c)
    \/ \E c \in ClientIds, r \in Roles : ClientIdentify(c, r)
    \/ \E c \in ClientIds, t \in {"null", "known"} : ClientTaskStatus(c, t)
    \/ \E c \in ClientIds : ClientUserMessage(c)
    \/ \E c \in ClientIds : ClientClose(c)

SpecClients == Init /\ [][ClientsNext]_vars

(***************************************************************************)
(* SpecLink: the supervisor process connecting and reconnecting to the     *)
(* gateway while the upstream session runs.                                *)
(***************************************************************************)
LinkNext ==
    \/ OcOpen
    \/ OcChallenge
    \/ OcHelloOk
    \/ \E t \in BOOLEAN : OcChatDelta(MaxClientEvents, t)
    \/ OcChatFinal(MaxClientEvents)
    \/ \E c \in ClientIds : SupConnect(c)
    \/ \E c \in ClientIds : SupIdentify(c)
    \/ \E c \in ClientIds : SupSocketClose(c)
    \/ SupUncaughtException
    \/ SupRestartFire

SpecLink == Init /\ [][LinkNext]_vars

(***************************************************************************)
(* SpecResize: the control plane's provisioning, restart and resize flows. *)
(***************************************************************************)
ResizeNext ==
    \/ ProvisionRunning
    \/ ProvisionHealth
    \/ \E r \in BOOLEAN, h \in BOOLEAN : RestartProject(r, h)
    \/ \E f \in Files : SandboxWrite(f)
    \/ \E t \in InstanceTypes : ResizeBegin(t)
    \/ ResizeDestroy
    \/ ResizeWorkerStopping
    \/ ResizeWorkerEc2
    \/ ResizeWorkerHealth
    \/ ResizeCreate

SpecResize == Init /\ [][ResizeNext]_vars

(***************************************************************************)
(* SpecSupervisor: the supervisor without a task file, with the gateway,   *)
(* the engine, the humans and the operator's control frames around it.     *)
(***************************************************************************)
SupervisorNext ==
    \/ SupOpen
    \/ SupStatusFrame
    \/ SupClose
    \/ \E a \in {"pause", "resume"} : SupControl(a)
    \/ SupExit
    \/ \E p \in BOOLEAN, m \in BOOLEAN, t \in BOOLEAN : GatewayRefuses(p, m, t)
    \/ \E p \in BOOLEAN, m \in BOOLEAN, t \in BOOLEAN : TurnTimerFire(p, m, t)
    \/ DelayTimerFire
    \/ ResumeTimerFire
    \/ TaskPollFire
    \/ HumanAttach
    \/ HumanDetach
    \/ UserMessage
    \/ \E len \in TextLengths : EngineTextDelta(len)
    \/ EngineToolStart
    \/ \E p \in BOOLEAN, m \in BOOLEAN, t \in BOOLEAN : EngineFinal(p, m, t)
    \/ \E p \in BOOLEAN, m \in BOOLEAN, t \in BOOLEAN : EngineChatError(p, m, t)
    \/ \E p \in BOOLEAN, m \in BOOLEAN, t \in BOOLEAN : EngineResError(p, m, t)
    \/ EngineClose
    \/ EngineHello

SpecSupervisor == Init /\ [][SupervisorNext]_vars

(***************************************************************************)
(* SpecTask: the supervisor driving a task, with the operator's task       *)
(* routes and the agent's edits of the task file; no human attaches.       *)
(***************************************************************************)
TaskNext ==
    \/ SupOpen
    \/ SupStatusFrame
    \/ \E p \in BOOLEAN, m \in BOOLEAN, t \in BOOLEAN : TurnTimerFire(p, m, t)
    \/ DelayTimerFire
    \/ TaskPollFire
    \/ NeedsInputPollFire
    \/ \E len \in TextLengths : EngineTextDelta(len)
    \/ EngineToolStart
    \/ \E p \in BOOLEAN, m \in BOOLEAN, t \in BOOLEAN : EngineFinal(p, m, t)
    \/ \E p \in BOOLEAN, m \in BOOLEAN, t \in BOOLEAN : EngineChatError(p, m, t)
    \/ EngineHello
    \/ \E cfg \in TaskConfigs : TaskCreate(cfg)
    \/ TaskStop
    \/ TaskResume
    \/ \E i \in 1..MaxQuestions : TaskRespond(i)
    \/ \E pr \in Priorities : AgentAsks(pr)
    \/ AgentDeclaresComplete

SpecTask == Init /\ [][TaskNext]_vars

(***************************************************************************)
(* Turns: the supervisor's per-turn load-increment-save against the task   *)
(* routes of the control plane between their read and their write.         *)
(***************************************************************************)
TurnsNext ==
    \/ SupOpen
    \/ SupStatusFrame
    \/ DelayTimerFire
    \/ EngineToolStart
    \/ \E p \in BOOLEAN, m \in BOOLEAN, t \in BOOLEAN : EngineFinal(p, m, t)
    \/ EngineHello
    \/ \E cfg \in TaskConfigs : TaskCreate(cfg)
    \/ \E pr \in Priorities : AgentAsks(pr)
    \/ TaskStopRead
    \/ TaskResumeRead
    \/ \E i \in 1..MaxQuestions : TaskRespondRead(i)
    \/ TaskFileWrite

SpecTurns == Init /\ [][TurnsNext]_vars

(***************************************************************************)
(* Verify: a task with a verify command run to its periodic verification,  *)
(* and the operator's stop and resume.                                     *)
(***************************************************************************)
VerifyNext ==
    \/ SupOpen
    \/ SupStatusFrame
    \/ DelayTimerFire
    \/ EngineToolStart
    \/ \E p \in BOOLEAN, m \in BOOLEAN, t \in BOOLEAN : EngineFinal(p, m, t)
    \/ EngineHello
    \/ \E cfg \in VerifyConfigs : TaskCreate(cfg)
    \/ TaskStop
    \/ TaskResume

SpecVerify == Init /\ [][VerifyNext]_vars

(***************************************************************************)
(* Limit: a task with a turn limit under done, error and timeout, gateway  *)
(* reconnects, human attach and detach, and supervisor_control.            *)
(***************************************************************************)
LimitNext ==
    \/ SupOpen
    \/ SupStatusFrame
    \/ SupClose
    \/ \E a \in {"pause", "resume"} : SupControl(a)
    \/ \E p \in BOOLEAN, m \in BOOLEAN, t \in BOOLEAN : TurnTimerFire(p, m, t)
    \/ DelayTimerFire
    \/ ResumeTimerFire
    \/ HumanAttach
    \/ HumanDetach
    \/ \E p \in BOOLEAN, m \in BOOLEAN, t \in BOOLEAN : EngineFinal(p, m, t)
    \/ \E p \in BOOLEAN, m \in BOOLEAN, t \in BOOLEAN : EngineChatError(p, m, t)
    \/ EngineHello
    \/ \E cfg \in LimitConfigs : TaskCreate(cfg)

SpecLimit == Init /\ [][LimitNext]_vars

(***************************************************************************)
(* IdleRun: an agent that answers every prompt with an empty turn, long    *)
(* enough for the recovery reset of sendPrompt to be reached.              *)
(***************************************************************************)
\* chat final of a turn in which no text and no tool call was streamed
EmptyTurnFinal ==
    /\ gwOc /\ gwRuns > 0 /\ connected /\ LinkIdle
    /\ turnTextChars = 0 /\ turnToolCount = 0
    /\ LET s1 == [SupRec EXCEPT !.gwRuns = @ - 1, !.gwBusy = FALSE]
       IN CommitWithin(OnDone(s1, FALSE, FALSE, FALSE), MaxIdleRunTurns, MaxIdleRunTurns)

\* the delay timeout between two turns of the run
IdleRunDelayFire ==
    /\ delayTimer
    /\ CommitWithin(DelayTimeout(SupRec), MaxIdleRunTurns, MaxIdleRunTurns)

IdleRunNext ==
    \/ SupOpen
    \/ SupStatusFrame
    \/ EngineHello
    \/ \E cfg \in IdleConfigs : TaskCreate(cfg)
    \/ EmptyTurnFinal
    \/ IdleRunDelayFire

SpecIdleRun == Init /\ [][IdleRunNext]_vars

(***************************************************************************)
(* Delays: a supervisor without a task and without humans, through runs of *)
(* turns of every classification long enough for every delay and every    *)
(* prompt type of sendPrompt.                                              *)
(***************************************************************************)
\* chat delta with text during a turn of the run
LongTextDelta(len) ==
    /\ gwOc /\ gwRuns > 0 /\ connected /\ LinkIdle
    /\ CommitWithin(OnTextDelta(SupRec, len), MaxIdleRunTurns, MaxIdleRunTurns)

\* agent tool event, phase start, during a turn of the run
LongToolStart ==
    /\ gwOc /\ gwRuns > 0 /\ connected /\ LinkIdle
    /\ CommitWithin(OnToolStart(SupRec), MaxIdleRunTurns, MaxIdleRunTurns)

\* chat final of a turn of the run
LongFinal ==
    /\ gwOc /\ gwRuns > 0 /\ connected /\ LinkIdle
    /\ LET s1 == [SupRec EXCEPT !.gwRuns = @ - 1, !.gwBusy = FALSE]
       IN CommitWithin(OnDone(s1, FALSE, FALSE, FALSE), MaxIdleRunTurns, MaxIdleRunTurns)

\* chat error of a turn of the run
LongChatError ==
    /\ gwOc /\ gwRuns > 0 /\ connected /\ LinkIdle
    /\ LET s1 == [SupRec EXCEPT !.gwRuns = @ - 1, !.gwBusy = FALSE]
       IN CommitWithin(OnError(s1, FALSE, FALSE, FALSE), MaxIdleRunTurns, MaxIdleRunTurns)

\* the turn timeout of a turn of the run
LongTurnTimerFire ==
    /\ turnTimer
    /\ CommitWithin(TurnTimeout(SupRec, FALSE, FALSE, FALSE),
                    MaxIdleRunTurns, MaxIdleRunTurns)

DelaysNext ==
    \/ SupOpen
    \/ SupStatusFrame
    \/ EngineHello
    \/ \E len \in TextLengths : LongTextDelta(len)
    \/ LongToolStart
    \/ LongFinal
    \/ LongChatError
    \/ LongTurnTimerFire
    \/ IdleRunDelayFire

SpecDelays == Init /\ [][DelaysNext]_vars

(***************************************************************************)
(* Projects: the create, destroy and secret routes on the database.        *)
(***************************************************************************)
ProjectsNext ==
    \/ \E n \in Names : CreateProject(n)
    \/ \E ok \in BOOLEAN, w \in BOOLEAN : CreateProjectDone(ok, w)
    \/ \E n \in Names : DestroyProject(n)
    \/ \E ok \in BOOLEAN : DestroyProjectDone(ok)
    \/ \E n \in Names, k \in SecretKeys : SetSecret(n, k)

SpecProjects == Init /\ [][ProjectsNext]_vars

(***************************************************************************)
(* Relay: the upstream socket of each chat relay errors or closes.         *)
(***************************************************************************)
RelayNext ==
    \/ \E r \in Relays, b \in MessageBytes : RelayUpstreamError(r, b)
    \/ \E r \in Relays, c \in CloseCodes, b \in ReasonBytes : RelayUpstreamClose(r, c, b)
    \/ \E r \in Relays : RelayClientClose(r)

SpecRelay == Init /\ [][RelayNext]_vars

(***************************************************************************)
(* RelayFrames: a client sends frames while the relay's upstream socket    *)
(* connects, is open, and after it has gone.                               *)
(***************************************************************************)
RelayFramesNext ==
    \/ \E r \in Relays : RelayClientFrame(r)
    \/ \E r \in Relays : RelayUpstreamOpen(r)
    \/ \E r \in Relays : RelayUpstreamGone(r)

SpecRelayFrames == Init /\ [][RelayFramesNext]_vars

(***************************************************************************)
(* Classify: turns ending with every signal and every metric.              *)
(***************************************************************************)
ClassifyNext ==
    \E result \in EndSignals, chars \in CharCounts, tools \in ToolCounts :
        ClassifyTurnEnd(result, chars, tools)

SpecClassify == Init /\ [][ClassifyNext]_vars

(***************************************************************************)
(* SpecPresence: humans attaching and detaching while the supervisor       *)
(* drives a task without a verify command; no operator control frame.      *)
(***************************************************************************)
PresenceNext ==
    \/ SupOpen
    \/ SupStatusFrame
    \/ \E p \in BOOLEAN, m \in BOOLEAN, t \in BOOLEAN : TurnTimerFire(p, m, t)
    \/ DelayTimerFire
    \/ ResumeTimerFire
    \/ TaskPollFire
    \/ NeedsInputPollFire
    \/ HumanAttach
    \/ HumanDetach
    \/ UserMessage
    \/ \E len \in TextLengths : EngineTextDelta(len)
    \/ \E p \in BOOLEAN, m \in BOOLEAN, t \in BOOLEAN : EngineFinal(p, m, t)
    \/ EngineHello
    \/ \E cfg \in {c \in TaskConfigs : ~c.verify} : TaskCreate(cfg)
    \/ TaskStop
    \/ \E i \in 1..MaxQuestions : TaskRespond(i)
    \/ \E pr \in Priorities : AgentAsks(pr)

SpecPresence == Init /\ [][PresenceNext]_vars

(***************************************************************************)
(* C1: for every client, the events of the history frame it received on    *)
(* connect followed by the events it received live are exactly the events  *)
(* buffered and broadcast so far, in upstream order, each exactly once,    *)
(* except those older than the 50 most recent at connect time.             *)
(***************************************************************************)
Max(a, b) == IF a >= b THEN a ELSE b

\* the event numbers lo+1 .. hi in order
Range(lo, hi) == [i \in 1..(hi - lo) |-> lo + i]

C1_HistoryThenLiveExactlyOnce ==
    \A c \in ClientIds :
        clients[c].open =>
            clients[c].hist \o clients[c].live
                = Range(Max(clients[c].connAt - EVENT_BUFFER_SIZE, 0), evCount)

\* a client that connected after the ring had evicted events and then received live events
C1_Witness ==
    \E c \in ClientIds :
        /\ clients[c].open
        /\ clients[c].connAt > EVENT_BUFFER_SIZE
        /\ Len(clients[c].hist) = EVENT_BUFFER_SIZE
        /\ Len(clients[c].live) > 0

(***************************************************************************)
(* C10: whenever the gateway broadcasts an error event that originates     *)
(* upstream (a chat event with state error, or a failed response to a      *)
(* request), agentBusy is false immediately afterwards.                    *)
(***************************************************************************)
C10_UpstreamErrorClearsBusy ==
    [][(OcChatError(MaxLive) \/ (\E b \in BOOLEAN : OcResError(MaxLive, b)))
         => agentBusy' = FALSE]_vars

(***************************************************************************)
(* C5: resize of a project that has a dedicated worker preserves the       *)
(* workspace volume: once a resize request has answered ok, every file     *)
(* that was in the worker's workspace volume when the request arrived is   *)
(* still there.                                                            *)
(***************************************************************************)
C5_ResizePreservesWorkspace ==
    resizeResult = "ok" => filesBefore \subseteq wVolume.files

\* a step in which sendPrompt() reaches ws.send of a user_message: turnCount++ happens
\* on exactly that path
PromptSent == turnCount' = turnCount + 1

(***************************************************************************)
(* C2: the supervisor emits at most one user_message per turn: a prompt is *)
(* sent only when no turn of the supervisor is open (the previous one has  *)
(* ended by done, error or timeout), and at the moment of sending its      *)
(* state is not PAUSED, NEEDS_INPUT or COMPLETED.                          *)
(***************************************************************************)
C2_OnePromptPerTurn ==
    [][PromptSent =>
         /\ ~turnOpen
         /\ lastPrompt'.state \notin {"PAUSED", "NEEDS_INPUT", "COMPLETED"}]_vars

(***************************************************************************)
(* C3: in NEEDS_INPUT with no human attached, once the operator has        *)
(* answered the blocking question, the next needs-input poll takes the     *)
(* supervisor out of NEEDS_INPUT and a prompt is sent to the agent.        *)
(***************************************************************************)
C3_AnswerEndsNeedsInput ==
    [][(/\ NeedsInputPollFire
        /\ state = "NEEDS_INPUT" /\ humanCount = 0 /\ gwHumans = 0
        /\ connected /\ ~supAgentBusy /\ gwOc
        /\ taskFile.present /\ taskFile.status = "running"
        /\ Len(getNewlyAnsweredQuestions(taskFile, lastSeenAnswers)) > 0
        /\ Len(BlockingQuestions(taskFile)) = 0)
         => (state' # "NEEDS_INPUT" /\ PromptSent)]_vars

(***************************************************************************)
(* C4: every answer recorded after the supervisor's last snapshot of the   *)
(* task's answers is quoted under "Human Responses" in the next            *)
(* continuation prompt the supervisor sends.                               *)
(***************************************************************************)
C4_NewAnswersQuoted ==
    [][(PromptSent /\ lastPrompt'.type = "continuation" /\ taskFile.present)
         => LET newly == getNewlyAnsweredQuestions(taskFile, lastSeenAnswers)
            IN {newly[i].id : i \in 1..Len(newly)} \subseteq lastPrompt'.answers]_vars

(***************************************************************************)
(* C6: with the supervisor in COMPLETED, no human attached, and the task   *)
(* document rewritten to status running by task/resume, the task poll      *)
(* takes the supervisor out of COMPLETED and a prompt is sent to the       *)
(* agent.                                                                  *)
(***************************************************************************)
C6_ResumeRestartsPrompts ==
    [][(/\ TaskPollFire
        /\ state = "COMPLETED" /\ humanCount = 0 /\ gwHumans = 0
        /\ connected /\ ~supAgentBusy /\ gwOc
        /\ taskFile.present /\ taskFile.status = "running")
         => (state' # "COMPLETED" /\ PromptSent)]_vars

(***************************************************************************)
(* C7: after a supervisor_control pause has been delivered, no prompt is   *)
(* sent until a supervisor_control resume is delivered.                    *)
(***************************************************************************)
C7_PauseHoldsUntilResume ==
    [][PromptSent => ~opPaused']_vars

(***************************************************************************)
(* C8: a client_change with humans > 0 that arrives while the supervisor   *)
(* is in DELAY cancels the pending delay timer and makes the state PAUSED, *)
(* and from then on no prompt is sent while the humans remain attached,    *)
(* however the timers and frames interleave.                               *)
(***************************************************************************)
C8_HumansPreemptDelay ==
    [][/\ (HumanAttach /\ connected /\ humanCount = 0 /\ state = "DELAY" /\ delayTimer)
            => (state' = "PAUSED" /\ ~delayTimer' /\ ~PromptSent)
       /\ PromptSent => ~humanPreempted]_vars

\* humans attached during a pending delay: the supervisor is PAUSED after at least one
\* turn and the humans are still there
C8_Witness ==
    /\ humanPreempted /\ gwHumans > 0 /\ humanCount > 0
    /\ state = "PAUSED" /\ ~delayTimer /\ turnCount > 0

(***************************************************************************)
(* C9: when the human count has returned to 0 with the supervisor PAUSED,  *)
(* the resume timer is armed, and when it fires with the count still 0 the *)
(* supervisor leaves PAUSED: to NEEDS_INPUT if the reloaded running task   *)
(* has an unanswered blocking question, otherwise to WAITING when the      *)
(* agent is busy, otherwise through sendPrompt (a prompt is sent, or       *)
(* COMPLETED is entered when the task is terminal).  In COMPLETED the      *)
(* supervisor stays in COMPLETED when the humans leave.                    *)
(***************************************************************************)
C9_ResumeAfterHumansLeave ==
    [][/\ (HumanDetach /\ connected /\ gwHumans = 1 /\ humanCount = 1)
            => IF state = "COMPLETED"
               THEN state' = "COMPLETED" /\ resumeTimer' = resumeTimer /\ ~PromptSent
               ELSE resumeTimer' /\ state' = state
       /\ (ResumeTimerFire /\ connected /\ state = "PAUSED" /\ humanCount = 0)
            => /\ ~resumeTimer'
               /\ IF /\ taskFile.present /\ taskFile.status = "running"
                     /\ Len(BlockingQuestions(taskFile)) > 0
                  THEN state' = "NEEDS_INPUT" /\ needsInputTimer' /\ ~PromptSent
                  ELSE IF supAgentBusy
                  THEN state' = "WAITING" /\ ~PromptSent
                  ELSE IF taskFile.present /\ taskFile.status # "running"
                  THEN state' = "COMPLETED" /\ ~PromptSent
                  ELSE state' = "WAITING" /\ PromptSent]_vars

\* the humans have left a PAUSED supervisor whose running task has an unanswered
\* blocking question, and the resume timer is pending
C9_Witness ==
    /\ state = "PAUSED" /\ resumeTimer /\ humanCount = 0 /\ gwHumans = 0 /\ connected
    /\ taskFile.present /\ taskFile.status = "running"
    /\ Len(BlockingQuestions(taskFile)) > 0

(***************************************************************************)
(* C11: whenever an identify message or a client disconnect changes the    *)
(* number of human clients or changes whether a supervisor client is       *)
(* connected, the gateway broadcasts a client_change frame carrying the    *)
(* new humans count and the new supervisorConnected value.                 *)
(***************************************************************************)
C11_ClientChangeBroadcast ==
    [][(/\ \/ \E c \in ClientIds, r \in Roles : ClientIdentify(c, r)
           \/ \E c \in ClientIds : ClientClose(c)
        /\ \/ getHumanCount(clients') # getHumanCount(clients)
           \/ isSupervisorConnected(clients') # isSupervisorConnected(clients))
         => clientFrame' = ClientChangeFrame(clients')]_vars

(***************************************************************************)
(* C12: at any time at most one upstream engine socket is connecting or    *)
(* open and at most one reconnect timer is pending; openclawWs refers to   *)
(* the live socket exactly when there is one, and a timer is pending only  *)
(* when there is none.                                                     *)
(***************************************************************************)
C12_SingleUpstreamSession ==
    /\ ocSockets <= 1
    /\ timersPending <= 1
    /\ (openclawWs # "null") <=> (ocSockets = 1)
    /\ reconnectTimer <=> (timersPending = 1)
    /\ ocSockets + timersPending = 1

\* two upstream closes in a row, each followed by a reconnect attempt: the third socket
\* is the only one
C12_Witness ==
    /\ reconnectAttempts = MaxAttempts /\ ocSockets = 1 /\ timersPending = 0
    /\ openclawWs = "connecting"

(***************************************************************************)
(* C13: after any sequence of upstream events the history ring holds at    *)
(* most 50 events, namely the most recent ones in arrival order; a client  *)
(* that connected after 75 events received exactly events 26..75 in order. *)
(***************************************************************************)
C13_RingHoldsLast50 ==
    /\ Len(eventBuffer) <= EVENT_BUFFER_SIZE
    /\ eventBuffer = Range(Max(evCount - EVENT_BUFFER_SIZE, 0), evCount)
    /\ \A c \in ClientIds :
          (clients[c].open /\ clients[c].connAt = 75)
              => clients[c].hist = [i \in 1..50 |-> 25 + i]

\* a client connected when 75 events had been buffered
C13_Witness ==
    /\ evCount >= 75
    /\ clients[1].open /\ clients[1].connAt = 75 /\ Len(clients[1].hist) = 50

(***************************************************************************)
(* C14: a user_message received while ocConnected is false produces one    *)
(* error frame, sent to the sending client only; nothing is sent upstream, *)
(* nothing is added to the history ring or reaches another client,         *)
(* agentBusy is unchanged, and the completion of the handshake sends no    *)
(* chat.send either (nothing was queued).                                  *)
(***************************************************************************)
C14_RefusedWhenNotConnected ==
    [][/\ \A c \in ClientIds :
            (ClientUserMessage(c) /\ ~ocConnected)
                => /\ clientFrame' = NotConnectedFrame(c)
                   /\ pendingSends' = pendingSends /\ pendingSends = 0
                   /\ eventBuffer' = eventBuffer /\ clients' = clients
                   /\ agentBusy' = agentBusy
       /\ OcHelloOk => (pendingSends' = 0 /\ agentBusy' = agentBusy)]_vars

\* a user_message was refused and the handshake has completed since
C14_Witness ==
    /\ clientFrame.type = "error" /\ ocConnected /\ pendingSends = 0 /\ ~agentBusy
    /\ eventBuffer = <<>>

(***************************************************************************)
(* C15: on every client connection the gateway sends to that client,       *)
(* before any live event reaches it, first the history frame (the ring),   *)
(* then a status frame with agentBusy, humanCount, supervisorConnected and *)
(* ocConnected as they are, then a task_status frame if and only if a task *)
(* status is known.                                                        *)
(***************************************************************************)
C15_ConnectionFrameOrder ==
    [][\A c \in ClientIds :
          ClientConnect(c)
              => /\ connFrames'.types =
                        IF taskStatus # "null"
                        THEN <<"history", "status", "task_status">>
                        ELSE <<"history", "status">>
                 /\ connFrames'.status =
                        [agentBusy |-> agentBusy, humanCount |-> getHumanCount(clients),
                         supervisorConnected |-> isSupervisorConnected(clients),
                         ocConnected |-> ocConnected]
                 /\ clients'[c].hist = eventBuffer
                 /\ clients'[c].live = <<>>]_vars

\* a client connected while a task status was known, a human and a supervisor were
\* attached and the agent was busy
C15_Witness ==
    /\ connFrames.types = <<"history", "status", "task_status">>
    /\ connFrames.status.humanCount > 0 /\ connFrames.status.agentBusy

(***************************************************************************)
(* C16: at any time at most one connection with role supervisor is         *)
(* attached to the gateway, including across the supervisor's 5 s          *)
(* reconnect after a lost connection and its 30 s restart of main() after  *)
(* an uncaught exception.                                                  *)
(***************************************************************************)
C16_SingleSupervisorConnection ==
    Cardinality({c \in ClientIds : clients[c].open /\ clients[c].role = "supervisor"}) <= 1

\* C17: progress.turns_completed of a task document never decreases while the document
\* is not replaced by POST /task, whatever the interleaving of the supervisor's per-turn
\* load-increment-save with task/stop, task/resume and task/respond.
C17_TurnsNeverDecrease ==
    [][(taskFile.present /\ taskFile'.present /\ taskFile'.id = taskFile.id)
         => taskFile'.turns >= taskFile.turns]_vars

\* C18: a task document with status stopped gets status running again only by the
\* resume operation; no write of the supervisor (turn counter, metric after a periodic
\* verification, limit enforcement) puts it back to running, also when the operator's
\* stop arrives during a turn.
C18_StoppedUntilResume ==
    [][(/\ taskFile.present /\ taskFile.status = "stopped"
        /\ taskFile'.present /\ taskFile'.id = taskFile.id
        /\ taskFile'.status = "running")
         => (TaskResume \/ (cpTaskOp = "resume" /\ TaskFileWrite))]_vars

\* C19: for a project created with an instance type, once the provisioned worker is
\* ready the control plane creates the sandbox on it and the project becomes running
\* without a further request: when waitForWorkerReady has returned with the worker
\* ready, the project is not left in status creating without a sandbox.
C19_ReadyWorkerGetsSandbox ==
    (provPc = "done" /\ cpWorkerStatus = "ready" /\ resizePc = "idle")
        => ~(cpProjectStatus = "creating" /\ ~wContainer)

\* C20: a restart, on the worker and on the control-plane host, re-creates the sandbox
\* and keeps the workspace volume: every file on the volume before the restart is on it
\* after the restart, and a restart that ends with status running has the sandbox
\* running on that volume.
C20_RestartKeepsWorkspace ==
    [][(\E r \in BOOLEAN, h \in BOOLEAN : RestartProject(r, h))
         => /\ wVolume.files \subseteq wVolume'.files
            /\ lVolume.files \subseteq lVolume'.files
            /\ (wVolume.exists => wVolume'.exists) /\ (lVolume.exists => lVolume'.exists)
            /\ cpProjectStatus' = "running"
                 => IF getWorkerUrl THEN wContainer' /\ wVolume'.exists
                                    ELSE lContainer' /\ lVolume'.exists]_vars

\* restarts in both modes have run on volumes that held files, and the files are there
C20_Witness ==
    /\ restartFiles.worker # {} /\ restartFiles.worker \subseteq wVolume.files
    /\ restartFiles.local # {} /\ restartFiles.local \subseteq lVolume.files
    /\ wContainer /\ lContainer /\ cpProjectStatus = "running"

\* number of entries of list-projects with name n
Listed(n) == Cardinality({i \in 1..Len(listProjects) : listProjects[i] = n})

\* C21: list-projects holds every successfully created name exactly once and no name
\* twice, and a create request for a name that exists returns 409 and changes no row.
C21_CreatedListedOnce ==
    [][/\ \A n \in Names : Listed(n)' <= 1 /\ (n \in created' => Listed(n)' = 1)
       /\ \A n \in Names :
            (CreateProject(n) /\ getProject(dbProjects, n))
               => /\ apiResponse' = [op |-> "create", name |-> n, code |-> 409]
                  /\ UNCHANGED <<dbProjects, dbSecrets, created>>]_vars

\* both names were created, and a further create of one of them was refused
C21_Witness ==
    /\ created = Names
    /\ apiResponse.op = "create" /\ apiResponse.code = 409

\* C22: a destroy that returns 200 removes the project's row and every secret of the
\* project; a destroy of a name that has no row returns 404 and changes no state.
C22_DestroyCascades ==
    [][/\ \A ok \in BOOLEAN :
            (DestroyProjectDone(ok) /\ ok)
               => /\ ~getProject(dbProjects', destroying)
                  /\ \A k \in SecretKeys : <<destroying, k>> \notin dbSecrets'
                  /\ apiResponse'.code = 200
       /\ \A n \in Names :
            (DestroyProject(n) /\ ~getProject(dbProjects, n))
               => /\ apiResponse' = [op |-> "destroy", name |-> n, code |-> 404]
                  /\ UNCHANGED <<dbProjects, dbSecrets, creating, destroying, created, cascaded>>]_vars

\* a project that had a secret was destroyed and a second destroy of it got 404, while
\* the other project kept its row and its secret
C22_Witness ==
    /\ apiResponse = [op |-> "destroy", name |-> "alpha", code |-> 404]
    /\ <<"alpha", "API_KEY">> \in cascaded
    /\ created = {"beta"} /\ getProject(dbProjects, "beta")
    /\ <<"beta", "API_KEY">> \in dbSecrets

\* C23: when the upstream socket of a chat relay closes with code c, the client socket is
\* closed with c if c = 1000 or 3000 <= c <= 4999 and with 1000 otherwise, with a reason
\* of at most 123 bytes; an upstream error closes the client socket with 1011.
C23_RelayCloseCode ==
    \A r \in Relays :
        /\ relayClient[r].by = "close"
             => /\ relayClient[r].code =
                     IF relayClient[r].upstream = 1000
                        \/ (3000 <= relayClient[r].upstream /\ relayClient[r].upstream <= 4999)
                     THEN relayClient[r].upstream ELSE 1000
                /\ relayClient[r].bytes <= 123
        /\ relayClient[r].by = "error"
             => relayClient[r].code = 1011 /\ relayClient[r].bytes <= 123

\* C24: when the agent has marked a running task completed and the verify command does
\* not pass, the supervisor writes the task back as running, and the next prompt it
\* sends is the one that tells the agent that verification failed.
C24_VerifyFailedPrompt ==
    [][/\ (verifyFailed' /\ ~verifyFailed)
            => taskFile.status = "completed" /\ taskFile'.status = "running"
       /\ (PromptSent /\ verifyFailed) => lastPrompt'.type = "verification-failed"]_vars

\* a step in which a done frame ends the open turn of a running task that nothing but
\* the supervisor has written since the prompt
DoneEndsTurn ==
    /\ \E p \in BOOLEAN, m \in BOOLEAN, t \in BOOLEAN : EngineFinal(p, m, t)
    /\ state = "WAITING" /\ connected /\ taskFile.present
    /\ taskFile.status = "running" /\ currentTask = taskFile

\* C25: for a running task with max_idle_turns = M, the turn end that completes the M-th
\* consecutive turn without progress (idle or empty) stops the task with reason
\* idle_timeout, and no task is stopped with idle_timeout at the end of a productive turn.
C25_IdleTimeoutAtMthTurn ==
    [][DoneEndsTurn =>
         LET classification == classifyTurn(turnTextChars, turnToolCount) IN
         /\ (classification \in {"idle", "empty"} /\ consecutiveIdle + 1 = taskFile.maxIdle)
               => taskFile'.status = "stopped" /\ taskFile'.reason = "idle_timeout"
         /\ classification = "productive" => taskFile'.reason # "idle_timeout"]_vars

\* C26: for a running task with max_turns = N, the end of the turn that brings
\* turns_completed to N stops the task with reason turn_limit, and the supervisor sends
\* no prompt for a task whose turns_completed has reached N, whatever the sequence of
\* done, error, timeout, reconnects, human attach and detach and supervisor_control.
C26_NoPromptPastTurnLimit ==
    [][/\ (PromptSent /\ taskFile.present /\ taskFile.status = "running"
            /\ taskFile.maxTurns > 0)
          => taskFile.turns < taskFile.maxTurns
       /\ (DoneEndsTurn /\ taskFile.maxTurns > 0 /\ taskFile.turns >= taskFile.maxTurns)
          => taskFile'.status = "stopped" /\ taskFile'.reason = "turn_limit"]_vars

\* C27: while a running task's turns all end empty, the count of idle turns that the
\* idle_timeout test reads is never taken back by a prompt, so that it reaches
\* max_idle_turns, and a turn that ends with the count at max_idle_turns stops the task
\* with reason idle_timeout.
C27_EmptyRunReachesIdleTimeout ==
    [][/\ (PromptSent /\ taskFile.present /\ taskFile.status = "running")
          => consecutiveIdle' >= consecutiveIdle
       /\ (DoneEndsTurn /\ consecutiveIdle >= taskFile.maxIdle)
          => taskFile'.status = "stopped" /\ taskFile'.reason = "idle_timeout"]_vars

\* C28: in every reachable state of the supervisor with state = WAITING a turn-timeout
\* timer is armed.
C28_WaitingHasTurnTimer == state = "WAITING" => turnTimer

\* a turn timeout fires for a prompt that neither done nor error has answered
TimeoutEndsTurn ==
    /\ \E p \in BOOLEAN, m \in BOOLEAN, t \in BOOLEAN : TurnTimerFire(p, m, t)
    /\ state = "WAITING" /\ turnOpen

\* C29: when the turn timeout fires for a prompt that neither done nor error has
\* answered, the supervisor ends the turn (no turn timer stays armed, the turn is closed),
\* the empty and idle counters are 0, the turn counts as productive (it is never stopped
\* with idle_timeout and never enters NEEDS_INPUT), and unless the turn end stops or
\* completes the task or a human is attached, the next prompt is scheduled after
\* MIN_DELAY_MS = 15 s.
C29_TimeoutEndsTurnProductive ==
    [][TimeoutEndsTurn =>
         /\ ~turnTimer' /\ ~turnOpen'
         /\ consecutiveEmpty' = 0 /\ consecutiveIdle' = 0
         /\ state' # "NEEDS_INPUT"
         /\ ~(taskFile'.reason = "idle_timeout" /\ taskFile.reason # "idle_timeout")
         /\ (state' # "COMPLETED" /\ humanCount = 0)
               => state' = "DELAY" /\ delayTimer' /\ turnDelay' = 15000]_vars

\* a turn timeout has ended a turn and the next prompt is scheduled after 15 s
C29_Witness ==
    /\ state = "DELAY" /\ delayTimer /\ turnDelay = 15000 /\ ~turnOpen
    /\ turnTextChars = 0 /\ turnToolCount = 0 /\ turnCount > 0
    /\ consecutiveEmpty = 0 /\ consecutiveIdle = 0

\* C30: the classification of a turn is defined for every end signal, character count
\* and tool count: timeout gives productive; error gives error whatever the metrics; for
\* done, no characters and no tool gives empty, one tool or more gives productive, fewer
\* than 200 characters (and at least one) without a tool gives idle, and 200 characters
\* or more without a tool gives ok.
C30_ClassificationTable ==
    turnEnded # NoTurnEnded =>
      LET result == turnEnded.result
          chars == turnEnded.chars
          tools == turnEnded.tools
          classification == turnEnded.classification
      IN /\ classification \in {"productive", "error", "empty", "idle", "ok"}
         /\ result = "timeout" => classification = "productive"
         /\ result = "error" => classification = "error"
         /\ (result = "ok" /\ chars = 0 /\ tools = 0) => classification = "empty"
         /\ (result = "ok" /\ tools >= 1) => classification = "productive"
         /\ (result = "ok" /\ chars > 0 /\ chars < 200 /\ tools = 0)
               => classification = "idle"
         /\ (result = "ok" /\ chars >= 200 /\ tools = 0) => classification = "ok"

\* a turn that ended with done, without text and without a tool call, was classified empty
C30_Witness ==
    turnEnded = [result |-> "ok", chars |-> 0, tools |-> 0, classification |-> "empty"]

C32_PromptKindByEmptyRun ==
    [][/\ (PromptSent /\ firstPromptSent) =>
            LET n == consecutiveEmpty IN
            /\ (5 <= n /\ n < 10) => lastPrompt'.type = "recovery-full"
            /\ (10 <= n /\ n < 20) => lastPrompt'.type = "recovery-directive"
            /\ n >= 20 => /\ lastPrompt'.type = "recovery-reset"
                          /\ consecutiveEmpty' = 0 /\ consecutiveIdle' = 0
       /\ (state = "WAITING" /\ state' = "DELAY") =>
            LET classification == classifyTurn(turnTextChars, turnToolCount) IN
            /\ LongTurnTimerFire => consecutiveEmpty' = 0
            /\ (LongFinal /\ classification \in {"productive", "ok"})
                  => consecutiveEmpty' = 0
            /\ (LongFinal /\ classification = "empty")
                  => consecutiveEmpty' = consecutiveEmpty + 1
            /\ (LongFinal /\ classification # "empty") => consecutiveEmpty' = 0
            /\ LongChatError => consecutiveEmpty' <= consecutiveEmpty]_vars

\* C33: a question that is answered in the task document stays answered in the document
\* under every later step, the supervisor's write-backs included (turn counter update,
\* metric update, completeTask, stopTask).
C33_AnswerNeverLost ==
    [][\A i \in 1..Len(taskFile.questions) :
          taskFile.questions[i].answer
             => /\ taskFile'.present /\ i <= Len(taskFile'.questions)
                /\ taskFile'.questions[i].answer]_vars

\* C34: the gateway's agentBusy is false only when no message forwarded upstream still
\* awaits its terminal chat event (final, error or aborted).
C34_BusyWhileRunsPending == ~gwBusy => gwRuns = 0

\* C35: while a relay's upstream socket has not closed, every frame the client has sent
\* since its socket was established has reached the gateway, in order, once the upstream
\* socket is open, the frames sent before it opened included.
C35_EveryClientFrameForwarded ==
    \A r \in Relays :
        fwdUp[r] = "open" => fwdGot[r] = [i \in 1..fwdSent[r] |-> i]

\* the classification of the turn that a step ends, or none when the step ends no turn
\* of a supervisor in WAITING
EndedTurnClass ==
    IF state # "WAITING" THEN "none"
    ELSE IF \E p \in BOOLEAN, m \in BOOLEAN, t \in BOOLEAN : TurnTimerFire(p, m, t)
         THEN "productive"
    ELSE IF connected /\ \E p \in BOOLEAN, m \in BOOLEAN, t \in BOOLEAN :
                            EngineChatError(p, m, t) \/ EngineResError(p, m, t)
                               \/ GatewayRefuses(p, m, t)
         THEN "error"
    ELSE IF connected /\ \E p \in BOOLEAN, m \in BOOLEAN, t \in BOOLEAN : EngineFinal(p, m, t)
         THEN IF turnTextChars = 0 /\ turnToolCount = 0 THEN "empty"
              ELSE IF turnToolCount >= 1 THEN "productive"
              ELSE IF turnTextChars < 200 THEN "idle"
              ELSE "ok"
    ELSE "none"

\* C36: at a turn end with a running task that the turn end neither stops nor completes,
\* the supervisor enters NEEDS_INPUT with the poll started exactly when the reloaded task
\* has an unanswered blocking question and the turn was idle or empty; otherwise it does
\* not enter NEEDS_INPUT, and with no human attached it schedules the next prompt.
C36_NeedsInputExactlyWhenBlocked ==
    [][(/\ state = "WAITING"
        /\ currentTask.present /\ currentTask.status = "running"
        /\ currentTask'.status = "running" /\ state' # "COMPLETED"
        /\ EndedTurnClass # "none")
       => LET fresh == IF taskFile'.present THEN taskFile' ELSE currentTask'
              blocked == \E i \in 1..Len(fresh.questions) :
                            /\ ~fresh.questions[i].answer
                            /\ fresh.questions[i].priority = "blocking"
          IN IF blocked /\ EndedTurnClass \in {"idle", "empty"}
             THEN state' = "NEEDS_INPUT" /\ needsInputTimer'
             ELSE /\ state' # "NEEDS_INPUT"
                  /\ humanCount = 0 => state' = "DELAY" /\ delayTimer']_vars

\* the supervisor is in NEEDS_INPUT with the poll running, after an empty turn of a task
\* with an unanswered blocking question
C36_Witness ==
    /\ state = "NEEDS_INPUT" /\ needsInputTimer /\ humanCount = 0
    /\ turnTextChars = 0 /\ turnToolCount = 0 /\ ~turnOpen
    /\ taskFile.status = "running" /\ Len(taskFile.questions) = 1
    /\ ~taskFile.questions[1].answer /\ taskFile.questions[1].priority = "blocking"

\* C37: every close of the upstream socket schedules the next connect attempt after
\* min(2 s x 2^k, 30 s), k the closes since the last completed handshake, which the
\* attempt counter holds: the close adds 1 to it and hello-ok sets it to 0, so that the
\* close after a completed handshake is followed by a wait of 2 s.
C37_ReconnectBackoff ==
    [][/\ OcCloseLong =>
            /\ reconnectTimer'
            /\ reconnectAttempts' = reconnectAttempts + 1
            /\ reconnectDelay' = Min(2000 * 2 ^ reconnectAttempts, 30000)
       /\ OcHelloOk => reconnectAttempts' = 0
       /\ (OcCloseLong /\ ocConnected) => reconnectDelay' = 2000]_vars

\* the fifth close in a row waits the cap of 30 s; a close after a handshake waits 2 s
C37_Witness ==
    /\ reconnectTimer
    /\ \/ reconnectAttempts = 5 /\ reconnectDelay = 30000
       \/ reconnectAttempts = 4 /\ reconnectDelay = 16000

\* C38: every failure of a provisioner operation on an existing worker row (the
\* readiness wait after provisionWorker, any step of resizeWorker) leaves the worker
\* row with status error.
C38_FailureLeavesWorkerError ==
    [][/\ (provPc # "done" /\ provPc' = "done" /\ cpWorkerStatus' # "ready")
            => cpWorkerStatus' = "error"
       /\ (resizePc \in {"ec2", "health"} /\ resizePc' = "idle")
            => cpWorkerStatus' = "error"]_vars

\* C39: when the worker agent's POST /container/create fails because the gateway of
\* the sandbox it ran did not answer /health in time, that sandbox is destroyed: a
\* failed create request on a worker without a sandbox leaves the worker without one.
C39_TimedOutSandboxDestroyed ==
    [][(/\ resizePc = "create" /\ getWorkerUrl /\ ~wContainer
        /\ resizePc' = "idle" /\ resizeResult' = "error")
            => ~wContainer']_vars

(***************************************************************************)
(* SpecEnv: ciphertexts go bad and are rewritten, sandboxes are created,   *)
(* restarted and destroyed.                                                *)
(***************************************************************************)
EnvNext ==
    \/ \E c \in Ciphertexts : CorruptCiphertext(c)
    \/ \E k \in SecretNames : PutSecret(k)
    \/ EnvCreateSandbox
    \/ \E w \in BOOLEAN : EnvRestartSandbox(w)
    \/ EnvDestroySandbox

SpecEnv == Init /\ [][EnvNext]_vars

\* C40: when a stored ciphertext of the project fails authentication, env composition
\* fails and no sandbox is created or restarted: a create or restart that finds a bad
\* ciphertext ends in error and starts no sandbox.
C40_BadCiphertextAbortsEnv ==
    [][(/\ \E c \in Ciphertexts : ~encIntact[c]
        /\ EnvCreateSandbox \/ \E w \in BOOLEAN : EnvRestartSandbox(w))
            => /\ envOutcome'.result = "error"
               /\ envSandbox' \in {envSandbox, NoSandbox}]_vars

=============================================================================
